---- MODULE Spec2Model ----
(***************************************************************************)
(* A model of Rocket's structural form-binding engine                      *)
(* (core/lib/src/form): the path cursor (name.rs), the leaf adapter        *)
(* (from_form_field.rs), the container adapters (from_form.rs) and the     *)
(* orchestrator parse_form (form.rs).                                      *)
(*                                                                         *)
(* Strings are sequences of one-character strings, so that the path        *)
(* grammar and the leaf parsers are computed character by character.       *)
(* Offsets are 0-based byte offsets as in the source; Slice(s, a, b) is    *)
(* the Rust slice s[a..b].                                                 *)
(***************************************************************************)
EXTENDS Integers, Sequences, FiniteSets, TLC

(***************************************************************************)
(* Bounds of the model.                                                    *)
(***************************************************************************)
\* The largest number of fields one bind attempt receives.
MaxFields == 3

\* The longest field name that a NameView walks.
MaxNameLen == 4

\* The longest name that a name is compared with.
MaxOtherLen == 3

\* The most errors that a Context is given.
MaxErrors == 3

(***************************************************************************)
(* Option and Result values.                                               *)
(***************************************************************************)
None == [some |-> FALSE]

Some(x) == [some |-> TRUE, v |-> x]

Ok(x) == [ok |-> TRUE, v |-> x]

Err(e) == [ok |-> FALSE, e |-> e]

(***************************************************************************)
(* String helpers.                                                         *)
(***************************************************************************)
Slice(s, a, b) == SubSeq(s, a + 1, b)

\* str::find with a set of characters: the 0-based offset of the first
\* character of s that is in cs, or -1 (None).
Find(s, cs) ==
    IF \E i \in 1..Len(s) : s[i] \in cs
    THEN (CHOOSE i \in 1..Len(s) : s[i] \in cs /\ \A j \in 1..(i - 1) : s[j] \notin cs) - 1
    ELSE -1

\* ASCII case folding, as uncased comparison does.
Lower(c) ==
    CASE c = "K" -> "k" [] c = "V" -> "v" [] c = "O" -> "o" [] c = "N" -> "n"
      [] c = "F" -> "f" [] c = "Y" -> "y" [] c = "E" -> "e" [] c = "S" -> "s"
      [] c = "T" -> "t" [] c = "R" -> "r" [] c = "U" -> "u" [] c = "A" -> "a"
      [] c = "L" -> "l" [] OTHER -> c

LowerStr(s) == [i \in 1..Len(s) |-> Lower(s[i])]

(***************************************************************************)
(* name.rs: NameView, a cursor (name, start, end) over a Name.             *)
(***************************************************************************)
START_DELIMS == {".", "["}

\* A shift that leaves the closing bracket of [key] in the suffix.
ShiftLen_bracket_open(string) ==
    IF Len(string) = 0 \/ string[1] = "=" THEN 0
    ELSE IF string[1] = "["
    THEN LET j == Find(Slice(string, 1, Len(string)), {"]", "."})
         IN  IF j >= 0 THEN j + 1 ELSE Len(string)
    ELSE IF string[1] = "."
    THEN LET j == Find(Slice(string, 1, Len(string)), START_DELIMS)
         IN  IF j >= 0 THEN j + 1 ELSE Len(string)
    ELSE LET j == Find(string, START_DELIMS)
         IN  IF j >= 0 THEN j ELSE Len(string)

\* NameView::shift: the number of characters the next segment consumes.
ShiftLen(string) ==
    IF Len(string) = 0 \/ string[1] = "=" THEN 0
    ELSE IF string[1] = "["
    THEN LET j == Find(Slice(string, 1, Len(string)), {"]", "."})
         IN  IF j >= 0
             THEN IF Slice(string, 1, Len(string))[j + 1] = "]" THEN j + 2 ELSE j + 1
             ELSE Len(string)
    ELSE IF string[1] = "."
    THEN LET j == Find(Slice(string, 1, Len(string)), START_DELIMS)
         IN  IF j >= 0 THEN j + 1 ELSE Len(string)
    ELSE LET j == Find(string, START_DELIMS)
         IN  IF j >= 0 THEN j ELSE Len(string)

\* A shift that runs one character past what the grammar consumes.
NameView_shift_overshoot(view) ==
    LET shift == ShiftLen(Slice(view.name, view.end, Len(view.name)))
    IN  [name |-> view.name, start |-> view.end, end |-> view.end + shift + 1]

\* A shift that moves the end of the view and leaves its start.
NameView_shift_restart(view) ==
    LET shift == ShiftLen(Slice(view.name, view.end, Len(view.name)))
    IN  [name |-> view.name, start |-> view.start, end |-> view.end + shift]

NameView_shift(view) ==
    LET shift == ShiftLen(Slice(view.name, view.end, Len(view.name)))
    IN  [name |-> view.name, start |-> view.end, end |-> view.end + shift]

NameView_new(name) == NameView_shift([name |-> name, start |-> 0, end |-> 0])

NameView_is_terminal(view) == view.start = Len(view.name)

NameView_as_name(view) == Slice(view.name, 0, view.end)

NameView_source(view) == view.name

\* A key_lossy that drops an opening bracket whether or not the segment
\* closes it.
NameView_key_lossy_unclosed(view) ==
    LET seg == Slice(view.name, view.start, view.end)
    IN  IF Len(seg) > 0 /\ seg[1] = "." THEN Slice(seg, 1, Len(seg))
        ELSE IF Len(seg) > 0 /\ seg[1] = "[" /\ seg[Len(seg)] = "]"
        THEN Slice(seg, 1, Len(seg) - 1)
        ELSE IF Len(seg) > 0 /\ seg[1] = "[" THEN Slice(seg, 1, Len(seg))
        ELSE seg

\* Allows empty keys.
NameView_key_lossy(view) ==
    LET seg == Slice(view.name, view.start, view.end)
    IN  IF Len(seg) > 0 /\ seg[1] = "." THEN Slice(seg, 1, Len(seg))
        ELSE IF Len(seg) > 0 /\ seg[1] = "[" /\ seg[Len(seg)] = "]"
        THEN Slice(seg, 1, Len(seg) - 1)
        ELSE seg

\* Does not allow empty keys.
NameView_key(view) ==
    LET lossy_key == NameView_key_lossy(view)
    IN  IF Len(lossy_key) = 0 THEN None ELSE Some(lossy_key)

(***************************************************************************)
(* name.rs: Name, whose keys and prefixes are read by shifting a fresh     *)
(* view until it is terminal.  An iterator that never gets to return None  *)
(* is told by ends = FALSE; its items are then the first ones only, and    *)
(* every later item repeats the last of them.                              *)
(***************************************************************************)
\* Whether next(), called again and again from view on, gets to return
\* None: it does not once a shift leaves a view that is not terminal as it
\* is.
RECURSIVE Keys_ends(_)
Keys_ends(view) ==
    IF NameView_is_terminal(view) THEN TRUE
    ELSE IF NameView_shift(view) = view THEN FALSE
    ELSE Keys_ends(NameView_shift(view))

\* Keys::next, called n times at most from view on.
RECURSIVE Keys_take(_, _)
Keys_take(view, n) ==
    IF n = 0 \/ NameView_is_terminal(view) THEN <<>>
    ELSE <<NameView_key_lossy(view)>> \o Keys_take(NameView_shift(view), n - 1)

\* Prefixes::next, called n times at most from view on.
RECURSIVE Prefixes_take(_, _)
Prefixes_take(view, n) ==
    IF n = 0 \/ NameView_is_terminal(view) THEN <<>>
    ELSE <<NameView_as_name(view)>> \o Prefixes_take(NameView_shift(view), n - 1)

Name_keys(name) ==
    [ends |-> Keys_ends(NameView_new(name)),
     items |-> Keys_take(NameView_new(name), Len(name) + 1)]

Name_prefixes(name) ==
    [ends |-> Keys_ends(NameView_new(name)),
     items |-> Prefixes_take(NameView_new(name), Len(name) + 1)]

\* The i-th item of an iterator.
Iter_at(it, i) == IF i <= Len(it.items) THEN it.items[i] ELSE it.items[Len(it.items)]

\* Iterator::eq: items are compared pairwise until they differ or one side
\* ends; it returns nothing when neither happens.
Iter_eq(a, b) ==
    IF a.ends /\ b.ends THEN [returns |-> TRUE, value |-> a.items = b.items]
    ELSE IF a.ends \/ b.ends THEN [returns |-> TRUE, value |-> FALSE]
    ELSE IF \E i \in 1..(Len(a.items) + Len(b.items)) : Iter_at(a, i) # Iter_at(b, i)
    THEN [returns |-> TRUE, value |-> FALSE]
    ELSE [returns |-> FALSE, value |-> FALSE]

\* Iterator::last.
Iter_last(a) ==
    [returns |-> a.ends,
     value |-> IF a.ends /\ a.items # <<>> THEN Some(a.items[Len(a.items)]) ELSE None]

\* impl PartialEq for Name
Name_eq(name, other) == Iter_eq(Name_keys(name), Name_keys(other))

\* str::hash: the bytes of the string, then the byte 0xff.
RECURSIVE Hash_keys(_)
Hash_keys(keys) ==
    IF keys = <<>> THEN <<>>
    ELSE Head(keys) \o <<"0xff">> \o Hash_keys(Tail(keys))

\* impl Hash for Name: what is written to the hasher.
Name_hash(name) ==
    [returns |-> Name_keys(name).ends, written |-> Hash_keys(Name_keys(name).items)]

\* Key::indices: the key split at every ':'.
RECURSIVE Key_indices(_)
Key_indices(key) ==
    LET j == Find(key, {":"})
    IN  IF j < 0 THEN <<key>>
        ELSE <<Slice(key, 0, j)>> \o Key_indices(Slice(key, j + 1, Len(key)))

(***************************************************************************)
(* The error model: Errors is a sequence of Error records, each with a     *)
(* kind, an optional name and an optional captured value.                  *)
(***************************************************************************)
Error_from(kind) == [kind |-> kind, name |-> None, value |-> None]

\* Error::set_name / set_value backfill a missing name or value.
Error_set_name(e, name) ==
    IF e.name.some THEN e ELSE [e EXCEPT !.name = Some(name)]

Error_set_value(e, value) ==
    IF e.value.some THEN e ELSE [e EXCEPT !.value = Some(value)]

Errors_from(kind) == <<Error_from(kind)>>

Errors_set_name(errors, name) ==
    [i \in 1..Len(errors) |-> Error_set_name(errors[i], name)]

Errors_set_value(errors, value) ==
    [i \in 1..Len(errors) |-> Error_set_value(errors[i], value)]

\* ValueField::unexpected and DataField::unexpected.
ValueField_unexpected(field) ==
    [kind |-> "Unexpected", name |-> Some(NameView_source(field.name)),
     value |-> Some(field.value)]

DataField_unexpected(field) ==
    [kind |-> "Unexpected", name |-> Some(NameView_source(field.name)),
     value |-> None]

(***************************************************************************)
(* Fields.                                                                 *)
(***************************************************************************)
\* ValueField::from((name, value)).
ValueField_from(name, value) == [name |-> NameView_new(name), value |-> value]

\* ValueField::from_value: a field with the empty name.
ValueField_from_value(value) == ValueField_from(<<>>, value)

\* ValueField::shift and DataField::shift advance the name's cursor.
Field_shift(field) == [field EXCEPT !.name = NameView_shift(@)]

(***************************************************************************)
(* options.rs.                                                             *)
(***************************************************************************)
Options_Lenient == [strict |-> FALSE]

Options_Strict == [strict |-> TRUE]

(***************************************************************************)
(* from_form_field.rs: the leaf parsers.  A leaf type is one of "u8",      *)
(* "bool", "str" (value-only leaves) and "data" (a data-only leaf).        *)
(***************************************************************************)
Digits == {"0", "1", "2", "3", "4", "5", "6", "7", "8", "9"}

DigitVal(c) ==
    CASE c = "0" -> 0 [] c = "1" -> 1 [] c = "2" -> 2 [] c = "3" -> 3
      [] c = "4" -> 4 [] c = "5" -> 5 [] c = "6" -> 6 [] c = "7" -> 7
      [] c = "8" -> 8 [] c = "9" -> 9

RECURSIVE DecVal(_)
DecVal(s) == IF Len(s) = 0 THEN 0 ELSE 10 * DecVal(Slice(s, 0, Len(s) - 1)) + DigitVal(s[Len(s)])

U8_MAX == 255

\* <u8 as FromStr>::from_str: an optional '+', then one or more digits, no
\* overflow; any failure is a ParseIntError, which becomes ErrorKind::Int.
ParseU8(s) ==
    LET digits == IF Len(s) > 0 /\ s[1] = "+" THEN Slice(s, 1, Len(s)) ELSE s
    IN  IF Len(digits) = 0 \/ \E i \in 1..Len(digits) : digits[i] \notin Digits
        THEN Err(Errors_from("Int"))
        ELSE IF DecVal(digits) > U8_MAX THEN Err(Errors_from("Int"))
        ELSE Ok(DecVal(digits))

\* impl FromFormField for bool.
ParseUncasedBool(v) ==
    IF v = <<"o", "n">> \/ v = <<"y", "e", "s">> \/ v = <<"t", "r", "u", "e">>
    THEN Ok(TRUE)
    ELSE IF v = <<"o", "f", "f">> \/ v = <<"n", "o">> \/ v = <<"f", "a", "l", "s", "e">>
    THEN Ok(FALSE)
    ELSE Err(Errors_from("Bool"))

ParseBool(s) == ParseUncasedBool(LowerStr(s))

\* A default that no type declares.
Leaf_default_none(t) == None

\* FromFormField::default.
Leaf_default(t) == IF t = "bool" THEN Some(FALSE) ELSE None

\* FromFormField::from_value; the trait's default fails with Unexpected.
Leaf_from_value(t, field) ==
    CASE t = "u8" -> ParseU8(field.value)
      [] t = "bool" -> ParseBool(field.value)
      [] t = "str" -> Ok(field.value)
      [] OTHER -> Err(<<ValueField_unexpected(field)>>)

\* FromFormField::from_data; the trait's default fails with Unexpected.
Leaf_from_data(t, field) ==
    CASE t = "data" -> Ok(field.data)
      [] OTHER -> Err(<<DataField_unexpected(field)>>)

(***************************************************************************)
(* from_form_field.rs: FromFieldContext, the leaf adapter.                 *)
(***************************************************************************)
Leaf_init(opts) ==
    [opts |-> opts, field_name |-> None, field_value |-> None,
     value |-> None, pushes |-> 0]

\* A can_push that lets every push through.
FromFieldContext_can_push_always(ctxt) == TRUE

\* A can_push that lets a push through while no success is held.
FromFieldContext_can_push_retry(ctxt) == ~ctxt.value.some \/ ~ctxt.value.v.ok

\* can_push counts the push and tells whether the leaf is still empty.
FromFieldContext_can_push(ctxt) == ctxt.value.some = FALSE

\* A can_push that forgets to count the push.
FromFieldContext_count_never(ctxt) == ctxt

FromFieldContext_count(ctxt) == [ctxt EXCEPT !.pushes = @ + 1]

is_unexpected(e) == Len(e) > 0 /\ e[Len(e)].kind = "Unexpected"

\* A push that records every result, Unexpected or not.
FromFieldContext_push_always(ctxt, name, result) ==
    [ctxt EXCEPT !.field_name = Some(name), !.value = Some(result)]

FromFieldContext_push(ctxt, name, result) ==
    LET named == [ctxt EXCEPT !.field_name = Some(name)]
    IN  IF ~result.ok /\ ~ctxt.opts.strict /\ is_unexpected(result.e)
        THEN named
        ELSE [named EXCEPT !.value = Some(result)]

Leaf_push_value(t, ctxt, field) ==
    LET counted == FromFieldContext_count(ctxt)
    IN  IF FromFieldContext_can_push(ctxt)
        THEN FromFieldContext_push([counted EXCEPT !.field_value = Some(field.value)],
                                   field.name, Leaf_from_value(t, field))
        ELSE counted

Leaf_push_data(t, ctxt, field) ==
    LET counted == FromFieldContext_count(ctxt)
    IN  IF FromFieldContext_can_push(ctxt)
        THEN FromFieldContext_push(counted, field.name, Leaf_from_data(t, field))
        ELSE counted

Leaf_finalize(t, ctxt) ==
    LET tagged(errors) ==
            LET named == IF ctxt.field_name.some
                         THEN Errors_set_name(errors, NameView_as_name(ctxt.field_name.v))
                         ELSE errors
            IN  IF ctxt.field_value.some
                THEN Errors_set_value(named, ctxt.field_value.v)
                ELSE named
    IN  IF ctxt.value.some /\ ctxt.value.v.ok /\ (~ctxt.opts.strict \/ ctxt.pushes <= 1)
        THEN Ok(ctxt.value.v.v)
        ELSE IF ctxt.value.some /\ ~ctxt.value.v.ok
        THEN Err(tagged(ctxt.value.v.e))
        ELSE IF ctxt.value.some
        THEN Err(tagged(Errors_from("Duplicate")))
        ELSE IF Leaf_default(t).some
        THEN Ok(Leaf_default(t).v)
        ELSE Err(tagged(Errors_from("Missing")))

(***************************************************************************)
(* from_form.rs: the FromForm protocol.  A bindable type is described by   *)
(* a record: [k |-> "leaf", t], [k |-> "vec", e], [k |-> "map", key, val], *)
(* [k |-> "pair", a, b], [k |-> "opt", e], [k |-> "res", e] or             *)
(* [k |-> "strict", e].  The four operations dispatch on it.               *)
(***************************************************************************)
RECURSIVE FromForm(_, _, _, _)

\* The four operations of the trait, on the type ty.
FF_init(ty, opts) == FromForm("init", ty, None, opts)

FF_push_value(ty, ctxt, field) == FromForm("push_value", ty, ctxt, field)

FF_push_data(ty, ctxt, field) == FromForm("push_data", ty, ctxt, field)

FF_finalize(ty, ctxt) == FromForm("finalize", ty, ctxt, None)

(***************************************************************************)
(* impl FromForm for Vec<T>.                                               *)
(***************************************************************************)
Vec_init(opts) ==
    [opts |-> opts, last_key |-> None, current |-> None, errors |-> <<>>, items |-> <<>>]

\* A shift that puts the finalized element in front of the others.
VecContext_shift_match_prepend(this, r) ==
    IF r.ok
    THEN [this EXCEPT !.current = None, !.items = <<r.v>> \o @]
    ELSE [this EXCEPT !.current = None, !.errors = @ \o r.e]

\* A shift that keeps the errors of the first failing element only.
VecContext_shift_match_first(this, r) ==
    IF r.ok
    THEN [this EXCEPT !.current = None, !.items = Append(@, r.v)]
    ELSE IF Len(this.errors) > 0 THEN [this EXCEPT !.current = None]
    ELSE [this EXCEPT !.current = None, !.errors = r.e]

\* The match on T::finalize(current) in VecContext::shift.
VecContext_shift_match(this, r) ==
    IF r.ok
    THEN [this EXCEPT !.current = None, !.items = Append(@, r.v)]
    ELSE [this EXCEPT !.current = None, !.errors = @ \o r.e]

VecContext_shift(T, this) ==
    IF this.current.some
    THEN VecContext_shift_match(this, FF_finalize(T, this.current.v))
    ELSE this

\* A keys_match that takes any two present keys as equal.
keys_match_any(last_key, this_key) == last_key.some /\ this_key.some

\* A context that keeps the running sub-context while no key is given.
VecContext_context_shared(T, this, name) ==
    [(IF this.current.some /\ ~this.last_key.some /\ ~NameView_key(name).some
      THEN this
      ELSE IF ~(this.last_key.some /\ NameView_key(name).some
                  /\ this.last_key.v = NameView_key(name).v)
      THEN [(IF this.current.some
             THEN VecContext_shift_match(this, FF_finalize(T, this.current.v))
             ELSE this) EXCEPT !.current = Some(FF_init(T, this.opts))]
      ELSE this)
     EXCEPT !.last_key = NameView_key(name)]

keys_match(last_key, this_key) ==
    last_key.some /\ this_key.some /\ last_key.v = this_key.v

\* A context that opens its sub-contexts lenient.
VecContext_context_lenient(T, this, name) ==
    [(IF ~(this.last_key.some /\ NameView_key(name).some
             /\ this.last_key.v = NameView_key(name).v)
      THEN [(IF this.current.some
             THEN VecContext_shift_match(this, FF_finalize(T, this.current.v))
             ELSE this) EXCEPT !.current = Some(FF_init(T, Options_Lenient))]
      ELSE this)
     EXCEPT !.last_key = NameView_key(name)]

\* VecContext::context: the context with its current sub-context selected.
VecContext_context(T, this, name) ==
    [(IF ~keys_match(this.last_key, NameView_key(name))
      THEN [VecContext_shift(T, this) EXCEPT !.current = Some(FF_init(T, this.opts))]
      ELSE this)
     EXCEPT !.last_key = NameView_key(name)]

Vec_push_value(T, this, field) ==
    [VecContext_context(T, this, field.name)
     EXCEPT !.current = Some(FF_push_value(T, @.v, Field_shift(field)))]

Vec_push_data(T, this, field) ==
    [VecContext_context(T, this, field.name)
     EXCEPT !.current = Some(FF_push_data(T, @.v, Field_shift(field)))]

\* The match on this.errors.is_empty() in finalize.
Vec_finalize_match(this) ==
    IF Len(this.errors) = 0 THEN Ok(this.items) ELSE Err(this.errors)

Vec_finalize(T, this) == Vec_finalize_match(VecContext_shift(T, this))

(***************************************************************************)
(* MapContext<K, V>, shared by HashMap and BTreeMap.  key_map is the       *)
(* IndexMap, in insertion order: a sequence of [key, index, name].         *)
(***************************************************************************)
MapContext_new(opts) ==
    [opts |-> opts, key_map |-> <<>>, keys |-> <<>>, values |-> <<>>, errors |-> <<>>]

key_map_contains(this, key) == \E j \in 1..Len(this.key_map) : this.key_map[j].key = key

key_map_get(this, key) == (CHOOSE j \in 1..Len(this.key_map) : this.key_map[j].key = key)

\* MapContext::ctxt: [c |-> the context, i |-> the entry's index (from 1)].
MapContext_ctxt(K, V, this, key, name) ==
    IF key_map_contains(this, key)
    THEN [c |-> this, i |-> this.key_map[key_map_get(this, key)].index + 1]
    ELSE [c |-> [this EXCEPT !.keys = Append(@, FF_init(K, this.opts)),
                             !.values = Append(@, FF_init(V, this.opts)),
                             !.key_map = Append(@, [key |-> key, index |-> Len(this.keys),
                                                    name |-> name])],
          i |-> Len(this.keys) + 1]

uncased_starts_with(s, c) == Len(s) > 0 /\ Lower(s[1]) = c

\* name.key().map(|k| k.indices()): the indices, none without a key.
index_pair(key) == IF key.some THEN Key_indices(key.v) ELSE <<>>

\* An implicit-key arm that never pushes the key.
MapContext_push_implicit_nokey(K, got, is_new_key, key) ==
    [c |-> got.c, side |-> "right", i |-> got.i]

\* An implicit-key arm that gives the key to the key context on every push.
MapContext_push_implicit_always(K, got, is_new_key, key) ==
    [c |-> [got.c EXCEPT !.keys[got.i] = FF_push_value(K, @, ValueField_from_value(key))],
     side |-> "right", i |-> got.i]

\* The implicit-key arm, on the entry got that ctxt returned.
MapContext_push_implicit(K, got, is_new_key, key) ==
    IF is_new_key
    THEN [c |-> [got.c EXCEPT !.keys[got.i] = FF_push_value(K, @, ValueField_from_value(key))],
          side |-> "right", i |-> got.i]
    ELSE [c |-> got.c, side |-> "right", i |-> got.i]

MapContext_push_side(got, side) == [c |-> got.c, side |-> side, i |-> got.i]

\* An error arm that adds no error.
MapContext_push_error_silent(this, kind, name) == [c |-> this, side |-> "none", i |-> 0]

MapContext_push_error(this, kind, name) ==
    [c |-> [this EXCEPT !.errors = Append(@, [kind |-> kind,
                                            name |-> Some(NameView_as_name(name)),
                                            value |-> None])],
     side |-> "none", i |-> 0]

\* The match on index_pair in MapContext::push.
MapContext_push_match(K, V, this, name, indices) ==
    IF Len(indices) = 1
    THEN MapContext_push_implicit(K, MapContext_ctxt(K, V, this, indices[1], name),
                                  ~key_map_contains(this, indices[1]), indices[1])
    ELSE IF Len(indices) >= 2
    THEN IF uncased_starts_with(indices[1], "k")
         THEN MapContext_push_side(MapContext_ctxt(K, V, this, indices[2], name), "left")
         ELSE IF uncased_starts_with(indices[1], "v")
         THEN MapContext_push_side(MapContext_ctxt(K, V, this, indices[2], name), "right")
         ELSE MapContext_push_error(this, "InvalidChoice", name)
    ELSE MapContext_push_error(this, "Missing", name)

\* MapContext::push: [c |-> the context, side |-> "left", "right" or
\* "none", i |-> the entry the field goes to].
MapContext_push(K, V, this, name) ==
    MapContext_push_match(K, V, this, name, index_pair(NameView_key(name)))

\* The match on self.push(field.name) in push_value.
MapContext_push_value_match(K, V, p, field) ==
    CASE p.side = "left" ->
           [p.c EXCEPT !.keys[p.i] = FF_push_value(K, @, Field_shift(field))]
      [] p.side = "right" ->
           [p.c EXCEPT !.values[p.i] = FF_push_value(V, @, Field_shift(field))]
      [] OTHER -> p.c

MapContext_push_value(K, V, this, field) ==
    MapContext_push_value_match(K, V, MapContext_push(K, V, this, field.name), field)

MapContext_push_data_match(K, V, p, field) ==
    CASE p.side = "left" ->
           [p.c EXCEPT !.keys[p.i] = FF_push_data(K, @, Field_shift(field))]
      [] p.side = "right" ->
           [p.c EXCEPT !.values[p.i] = FF_push_data(V, @, Field_shift(field))]
      [] OTHER -> p.c

MapContext_push_data(K, V, this, field) ==
    MapContext_push_data_match(K, V, MapContext_push(K, V, this, field.name), field)

\* One next() of a filter_map over contexts zipped with the entries' names:
\* finalizes contexts from index i on until one succeeds, adding the errors
\* of those that fail.  [found, v, i |-> the next index, errors].
RECURSIVE filter_map_next(_, _, _, _, _)
filter_map_match(T, ctxts, names, i, errors, r) ==
    IF r.ok
    THEN [found |-> TRUE, v |-> r.v, i |-> i + 1, errors |-> errors]
    ELSE filter_map_next(T, ctxts, names, i + 1,
                         errors \o Errors_set_name(r.e, NameView_as_name(names[i])))

filter_map_next(T, ctxts, names, i, errors) ==
    IF i > Len(ctxts) \/ i > Len(names)
    THEN [found |-> FALSE, i |-> i, errors |-> errors]
    ELSE filter_map_match(T, ctxts, names, i, errors, FF_finalize(T, ctxts[i]))

\* keys.zip(values).collect(): Zip::next takes the next key, and only if there
\* is one, the next value.  [map, errors].
RECURSIVE zip_collect(_, _, _, _, _, _, _, _)
zip_next_value(K, V, this, names, k, v, map) ==
    IF ~v.found THEN [map |-> map, errors |-> v.errors]
    ELSE zip_collect(K, V, this, names, k.i, v.i, v.errors, (k.v :> v.v) @@ map)

zip_next_key(K, V, this, names, k, vi, map) ==
    IF ~k.found THEN [map |-> map, errors |-> k.errors]
    ELSE zip_next_value(K, V, this, names, k,
                        filter_map_next(V, this.values, names, vi, k.errors), map)

zip_collect(K, V, this, names, ki, vi, errors, map) ==
    zip_next_key(K, V, this, names, filter_map_next(K, this.keys, names, ki, errors), vi, map)

\* The empty map.
EmptyMap == [x \in {} |-> x]

key_map_names(this) == [j \in 1..Len(this.key_map) |-> this.key_map[j].name]

\* The match on no_errors in finalize.
MapContext_finalize_match(z) ==
    IF Len(z.errors) = 0 THEN Ok(z.map) ELSE Err(z.errors)

MapContext_finalize(K, V, this) ==
    MapContext_finalize_match(
        zip_collect(K, V, this, key_map_names(this), 1, 1, this.errors, EmptyMap))

(***************************************************************************)
(* impl FromForm for (A, B).                                               *)
(***************************************************************************)
Pair_init(A, B, opts) ==
    [left |-> FF_init(A, opts), right |-> FF_init(B, opts), errors |-> <<>>]

\* A match that takes the segment 1 as any other segment.
Pair_push_value_match_other(A, B, c, field, key) ==
    CASE key = <<"0">> -> [c EXCEPT !.left = FF_push_value(A, @, Field_shift(field))]
      [] OTHER -> [c EXCEPT !.left = FF_push_value(A, @, ValueField_from_value(key)),
                            !.right = FF_push_value(B, @, Field_shift(field))]

\* A match whose catch-all arm forgets the left side.
Pair_push_value_match_right(A, B, c, field, key) ==
    CASE key = <<"0">> -> [c EXCEPT !.left = FF_push_value(A, @, Field_shift(field))]
      [] OTHER -> [c EXCEPT !.right = FF_push_value(B, @, Field_shift(field))]

\* The match on field.name.key_lossy().as_str() in push_value.
Pair_push_value_match(A, B, c, field, key) ==
    CASE key = <<"0">> -> [c EXCEPT !.left = FF_push_value(A, @, Field_shift(field))]
      [] key = <<"1">> -> [c EXCEPT !.right = FF_push_value(B, @, Field_shift(field))]
      [] OTHER -> [c EXCEPT !.left = FF_push_value(A, @, ValueField_from_value(key)),
                            !.right = FF_push_value(B, @, Field_shift(field))]

Pair_push_value(A, B, c, field) ==
    Pair_push_value_match(A, B, c, field, NameView_key_lossy(field.name))

Pair_push_data_match(A, B, c, field, key) ==
    CASE key = <<"0">> -> [c EXCEPT !.left = FF_push_data(A, @, Field_shift(field))]
      [] key = <<"1">> -> [c EXCEPT !.right = FF_push_data(B, @, Field_shift(field))]
      [] OTHER -> [c EXCEPT !.left = FF_push_value(A, @, ValueField_from_value(key)),
                            !.right = FF_push_data(B, @, Field_shift(field))]

Pair_push_data(A, B, c, field) ==
    Pair_push_data_match(A, B, c, field, NameView_key_lossy(field.name))

\* The match on (A::finalize(this.left), B::finalize(this.right)).
Pair_finalize_match(this, left, right) ==
    IF left.ok /\ right.ok /\ Len(this.errors) = 0
    THEN Ok([a |-> left.v, b |-> right.v])
    ELSE IF left.ok /\ right.ok THEN Err(this.errors)
    ELSE Err(this.errors \o (IF left.ok THEN <<>> ELSE left.e)
                         \o (IF right.ok THEN <<>> ELSE right.e))

Pair_finalize(A, B, this) ==
    Pair_finalize_match(this, FF_finalize(A, this.left), FF_finalize(B, this.right))

(***************************************************************************)
(* impl FromForm for Option<T>, for Result<T> and (form.rs) for Strict<T>. *)
(***************************************************************************)
(***************************************************************************)
(* The binding derived for a record: a child context per declared field,   *)
(* keyed by the field's name.  A field of the form that matches no         *)
(* declared field is an Unexpected error under strict options and is       *)
(* ignored under lenient ones; finalize assembles the record or returns    *)
(* the errors, those of a child under the child's name.                    *)
(***************************************************************************)
Record_init(fields, opts) ==
    [opts |-> opts, errors |-> <<>>,
     fields |-> [i \in 1..Len(fields) |-> FF_init(fields[i].ty, opts)]]

\* The index of the declared field named key, or 0.
Record_field(fields, key) ==
    IF \E i \in 1..Len(fields) : fields[i].name = key
    THEN CHOOSE i \in 1..Len(fields) : fields[i].name = key
    ELSE 0

Record_unexpected(this, error) ==
    IF this.opts.strict THEN [this EXCEPT !.errors = Append(@, error)] ELSE this

Record_push_value_match(fields, this, field, i) ==
    IF i > 0
    THEN [this EXCEPT !.fields[i] = FF_push_value(fields[i].ty, @, Field_shift(field))]
    ELSE Record_unexpected(this, ValueField_unexpected(field))

Record_push_value(fields, this, field) ==
    Record_push_value_match(fields, this, field,
                            Record_field(fields, NameView_key_lossy(field.name)))

Record_push_data_match(fields, this, field, i) ==
    IF i > 0
    THEN [this EXCEPT !.fields[i] = FF_push_data(fields[i].ty, @, Field_shift(field))]
    ELSE Record_unexpected(this, DataField_unexpected(field))

Record_push_data(fields, this, field) ==
    Record_push_data_match(fields, this, field,
                           Record_field(fields, NameView_key_lossy(field.name)))

\* The errors of the children from the i-th on, each under its field's name.
RECURSIVE Record_errors(_, _, _)
Record_errors(fields, rs, i) ==
    IF i > Len(fields) THEN <<>>
    ELSE (IF rs[i].ok THEN <<>> ELSE Errors_set_name(rs[i].e, fields[i].name))
           \o Record_errors(fields, rs, i + 1)

Record_finalize_errors(fields, rs, errors) ==
    IF Len(errors) = 0
    THEN Ok([name \in {fields[i].name : i \in 1..Len(fields)} |->
                rs[Record_field(fields, name)].v])
    ELSE Err(errors)

Record_finalize_match(fields, this, rs) ==
    Record_finalize_errors(fields, rs, this.errors \o Record_errors(fields, rs, 1))

Record_finalize(fields, this) ==
    Record_finalize_match(fields, this,
                          [i \in 1..Len(fields) |-> FF_finalize(fields[i].ty, this.fields[i])])

\* A match that hands the inner failure on.
Option_finalize_match_forward(r) == IF r.ok THEN Ok(Some(r.v)) ELSE Err(r.e)

\* A match that hands the inner failure on.
Result_finalize_match_forward(r) == IF r.ok THEN Ok(Ok(r.v)) ELSE Err(r.e)

Option_finalize_match(r) == IF r.ok THEN Ok(Some(r.v)) ELSE Ok(None)

Option_finalize(T, this) == Option_finalize_match(FF_finalize(T, this))

Result_finalize_match(r) == IF r.ok THEN Ok(Ok(r.v)) ELSE Ok(Err(r.e))

Result_finalize(T, this) == Result_finalize_match(FF_finalize(T, this))

\* An init that hands the options on as they are.
Strict_init_as_given(T, opts) == FF_init(T, opts)

Strict_init(T, opts) == FF_init(T, [opts EXCEPT !.strict = TRUE])

(***************************************************************************)
(* The protocol's dispatch on the bindable type.                           *)
(***************************************************************************)
Dispatch_init(ty, opts) ==
    CASE ty.k = "leaf" -> Leaf_init(opts)
      [] ty.k = "vec" -> Vec_init(opts)
      [] ty.k = "map" -> MapContext_new(opts)
      [] ty.k = "pair" -> Pair_init(ty.a, ty.b, opts)
      [] ty.k = "record" -> Record_init(ty.fields, opts)
      [] ty.k = "strict" -> Strict_init(ty.e, opts)
      [] OTHER -> FF_init(ty.e, opts)

Dispatch_push_value(ty, ctxt, field) ==
    CASE ty.k = "leaf" -> Leaf_push_value(ty.t, ctxt, field)
      [] ty.k = "vec" -> Vec_push_value(ty.e, ctxt, field)
      [] ty.k = "map" -> MapContext_push_value(ty.key, ty.val, ctxt, field)
      [] ty.k = "pair" -> Pair_push_value(ty.a, ty.b, ctxt, field)
      [] ty.k = "record" -> Record_push_value(ty.fields, ctxt, field)
      [] OTHER -> FF_push_value(ty.e, ctxt, field)

Dispatch_push_data(ty, ctxt, field) ==
    CASE ty.k = "leaf" -> Leaf_push_data(ty.t, ctxt, field)
      [] ty.k = "vec" -> Vec_push_data(ty.e, ctxt, field)
      [] ty.k = "map" -> MapContext_push_data(ty.key, ty.val, ctxt, field)
      [] ty.k = "pair" -> Pair_push_data(ty.a, ty.b, ctxt, field)
      [] ty.k = "record" -> Record_push_data(ty.fields, ctxt, field)
      [] OTHER -> FF_push_data(ty.e, ctxt, field)

Dispatch_finalize(ty, ctxt) ==
    CASE ty.k = "leaf" -> Leaf_finalize(ty.t, ctxt)
      [] ty.k = "vec" -> Vec_finalize(ty.e, ctxt)
      [] ty.k = "map" -> MapContext_finalize(ty.key, ty.val, ctxt)
      [] ty.k = "pair" -> Pair_finalize(ty.a, ty.b, ctxt)
      [] ty.k = "record" -> Record_finalize(ty.fields, ctxt)
      [] ty.k = "opt" -> Option_finalize(ty.e, ctxt)
      [] ty.k = "res" -> Result_finalize(ty.e, ctxt)
      [] OTHER -> FF_finalize(ty.e, ctxt)

\* The single recursion through which every nested call goes.
FromForm(op, ty, ctxt, arg) ==
    CASE op = "init" -> Dispatch_init(ty, arg)
      [] op = "push_value" -> Dispatch_push_value(ty, ctxt, arg)
      [] op = "push_data" -> Dispatch_push_data(ty, ctxt, arg)
      [] OTHER -> Dispatch_finalize(ty, ctxt)

(***************************************************************************)
(* form.rs: parse_form, the orchestrator.  A bind attempt b is the         *)
(* top-level context (None before init and once finalize has consumed it)  *)
(* with the log of the protocol calls made on it.                          *)
(***************************************************************************)
Call_init(T, options, b) ==
    [context |-> Some(FF_init(T, options)), calls |-> Append(b.calls, [op |-> "init"])]

Call_push_value(T, b, field) ==
    [context |-> IF b.context.some THEN Some(FF_push_value(T, b.context.v, field)) ELSE None,
     calls |-> Append(b.calls, [op |-> "push_value", field |-> field])]

Call_push_data(T, b, field) ==
    [context |-> IF b.context.some THEN Some(FF_push_data(T, b.context.v, field)) ELSE None,
     calls |-> Append(b.calls, [op |-> "push_data", field |-> field])]

\* [b |-> the attempt with its context consumed, r |-> finalize's result].
Call_finalize(T, b) ==
    [b |-> [context |-> None, calls |-> Append(b.calls, [op |-> "finalize"])],
     r |-> IF b.context.some THEN FF_finalize(T, b.context.v)
           ELSE Err(Errors_from("Moved"))]

\* The transport's error, converted into an Error.
TransportError == Error_from("Multipart")

\* A try_or_finalize that returns the transport's error alone.
(***************************************************************************)
(* form.rs: sanitize, which makes of a multipart file name the name that   *)
(* a DataField carries.  Paths are read as on Unix: '/' separates.         *)
(***************************************************************************)
\* Path::file_name of the first n characters of s: the last component,
\* read from the end, skipping separators and inner "." components; None
\* when there is none or when it is "..".
RECURSIVE Path_last(_, _)
Path_last(s, n) ==
    IF \A i \in 1..n : s[i] = "/" THEN None
    ELSE LET e == CHOOSE i \in 1..n : s[i] # "/" /\ \A j \in (i + 1)..n : s[j] = "/"
             b == CHOOSE i \in 1..e : (\A j \in i..e : s[j] # "/")
                                        /\ (i = 1 \/ s[i - 1] = "/")
             piece == SubSeq(s, b, e)
         IN  IF piece = <<".">> THEN (IF b = 1 THEN None ELSE Path_last(s, b - 1))
             ELSE IF piece = <<".", ".">> THEN None
             ELSE Some(piece)

\* Path::new(file_name).file_name()
Path_file_name(s) == Path_last(s, Len(s))

\* n.find('.').map(|i| n.split_at(i).0).unwrap_or(n)
Before_dot(n) == IF Find(n, {"."}) >= 0 THEN Slice(n, 0, Find(n, {"."})) ELSE n

\* The checks of sanitize on the name it is about to return.
sanitize_rejects(file_name) ==
    \/ Len(file_name) = 0
    \/ file_name[1] \in {".", "*"}
    \/ file_name[Len(file_name)] \in {":", ">", "<"}
    \/ \E i \in 1..Len(file_name) : file_name[i] \in {"/", "\\"}

\* A sanitize that lets a name pass whatever it ends with.
sanitize_any_end(file_name) ==
    IF ~Path_file_name(file_name).some THEN None
    ELSE IF \/ Len(Before_dot(Path_file_name(file_name).v)) = 0
            \/ Before_dot(Path_file_name(file_name).v)[1] \in {".", "*"}
    THEN None
    ELSE Some(Before_dot(Path_file_name(file_name).v))

\* A sanitize that checks and returns the final component whole.
sanitize_uncut(file_name) ==
    IF ~Path_file_name(file_name).some THEN None
    ELSE IF sanitize_rejects(Path_file_name(file_name).v) THEN None
    ELSE Some(Path_file_name(file_name).v)

sanitize(file_name) ==
    IF ~Path_file_name(file_name).some THEN None
    ELSE IF sanitize_rejects(Before_dot(Path_file_name(file_name).v)) THEN None
    ELSE Some(Before_dot(Path_file_name(file_name).v))

\* Data::from(field): the stream of the multipart field, which keeps the
\* file name the field was sent with.
Data_from(body, file_name) == body \o <<"; filename=">> \o file_name

try_or_finalize_match_alone(f, e) ==
    [b |-> f.b, result |-> Some(Err(<<e>>)), pc |-> "done"]

\* try_or_finalize!, on Err(e): finalize the context, add e, and return.
try_or_finalize_match(f, e) ==
    [b |-> f.b,
     result |-> Some(IF f.r.ok THEN Err(<<e>>) ELSE Err(Append(f.r.e, e))),
     pc |-> "done"]

\* A try_or_finalize that returns the error without finalizing the context.
try_or_finalize_unfinalized(T, b, e) == [b |-> b, result |-> Some(Err(<<e>>)), pc |-> "done"]

try_or_finalize(T, b, e) == try_or_finalize_match(Call_finalize(T, b), e)

\* The end of the fields: return T::finalize(context).
return_result(f) == [b |-> f.b, result |-> Some(f.r), pc |-> "done"]

finalize_and_return(T, b) == return_result(Call_finalize(T, b))

\* A multipart field with a content type becomes a DataField.
DataField_of(name, file_name, data) ==
    [name |-> NameView_new(name), file_name |-> file_name, data |-> data]

(***************************************************************************)
(* buffer.rs: Buffer, a vector of strings behind a raw mutex.  The vector  *)
(* is told by its strings, its capacity and the allocation that holds its  *)
(* slots: a push onto a full vector moves the slots to a new allocation.   *)
(***************************************************************************)
\* Buffer::new
Buffer_new == [strings |-> <<>>, cap |-> 0, alloc |-> 0, mutex |-> FALSE]

(***************************************************************************)
(* The bindable types and the inputs of the model.                         *)
(***************************************************************************)
T_leaf(t) == [k |-> "leaf", t |-> t]

T_vec(e) == [k |-> "vec", e |-> e]

T_map(key, val) == [k |-> "map", key |-> key, val |-> val]

T_pair(a, b) == [k |-> "pair", a |-> a, b |-> b]

T_opt(e) == [k |-> "opt", e |-> e]

T_res(e) == [k |-> "res", e |-> e]

T_strict(e) == [k |-> "strict", e |-> e]

T_record(fields) == [k |-> "record", fields |-> fields]

\* struct { a: u8 }
RecordA == T_record(<<[name |-> <<"a">>, ty |-> T_leaf("u8")]>>)

RecordTypes == {RecordA, T_strict(RecordA)}

LeafTypes ==
    {T_leaf("u8"), T_leaf("bool"), T_leaf("str"), T_leaf("data"), T_strict(T_leaf("u8"))}

VecTypes ==
    {T_vec(T_leaf("str")), T_vec(T_leaf("u8")), T_vec(T_map(T_leaf("str"), T_leaf("u8")))}

MapTypes == {T_map(T_leaf("str"), T_leaf("u8")), T_map(T_leaf("str"), T_leaf("bool"))}

PairTypes == {T_pair(T_leaf("str"), T_leaf("u8")), T_pair(T_leaf("u8"), T_leaf("u8"))}

WrapTypes ==
    {T_opt(T_leaf("u8")), T_res(T_leaf("u8")),
     T_opt(T_vec(T_leaf("u8"))), T_res(T_vec(T_leaf("u8")))}

AggTypes ==
    {T_vec(T_leaf("u8")), T_pair(T_leaf("u8"), T_leaf("u8")),
     T_vec(T_pair(T_leaf("u8"), T_leaf("u8")))}

OrderTypes ==
    {T_leaf("u8"), T_opt(T_leaf("u8")), T_pair(T_leaf("str"), T_leaf("u8")),
     T_vec(T_leaf("str")), T_map(T_leaf("str"), T_leaf("u8"))}

StrictTypes ==
    {T_strict(T_vec(T_leaf("u8"))), T_strict(T_map(T_leaf("str"), T_leaf("u8"))),
     T_strict(T_pair(T_leaf("str"), T_leaf("u8"))), T_strict(T_opt(T_leaf("u8"))),
     T_strict(T_res(T_vec(T_leaf("u8"))))}

\* The type with its wrappers removed.
RECURSIVE Unwrapped(_)
Unwrapped(ty) == IF ty.k \in {"opt", "res", "strict"} THEN Unwrapped(ty.e) ELSE ty

\* The field names a bind attempt of the type may receive.
InputNames(ty) ==
    LET u == Unwrapped(ty)
    IN  CASE u.k = "leaf" -> {<<"a">>}
          [] u.k = "vec" /\ u.e.k = "leaf" ->
               {<<"[", "0", "]">>, <<"[", "1", "]">>, <<>>, <<"[", "]">>}
          [] u.k = "vec" ->
               {<<"[", "0", "]", ".", "v">>, <<"[", "1", "]", ".", "v">>,
                <<"[", "0", "]", ".", "w">>}
          [] u.k = "map" /\ u.val.t = "u8" ->
               {<<"[", "a", "]">>, <<"[", "b", "]">>,
                <<"[", "k", ":", "0", "]">>, <<"[", "v", ":", "0", "]">>}
          [] u.k = "map" ->
               {<<"[", "a", "]">>, <<"[", "K", ":", "0", "]">>,
                <<"[", "x", ":", "0", "]">>, <<"[", "]">>, <<>>}
          [] u.k = "record" -> {<<"a">>, <<"b">>}
          [] OTHER -> {<<"0">>, <<"1">>, <<"a">>}

\* The text values it may receive.
InputValues(ty) ==
    LET u == Unwrapped(ty)
    IN  CASE u.k = "leaf" -> {<<"1">>, <<"2">>, <<"x">>, <<"y">>, <<"o", "n">>}
          [] u.k = "vec" /\ u.e.k = "leaf" /\ u.e.t = "str" -> {<<"a">>, <<"b">>}
          [] u.k = "vec" /\ u.e.k = "leaf" -> {<<"1">>, <<"x">>}
          [] u.k = "vec" /\ u.e.k = "pair" -> {<<"1">>, <<"x">>}
          [] u.k = "record" -> {<<"1">>, <<"2">>}
          [] u.k = "vec" -> {<<"1">>, <<"2">>}
          [] u.k = "map" /\ u.val.t = "bool" -> {<<"o", "n">>, <<"x">>}
          [] OTHER -> {<<"1">>, <<"2">>, <<"a">>}

\* The names of the data fields it may receive, and their streams.
InputDataNames(ty) ==
    LET u == Unwrapped(ty)
    IN  CASE u.k = "leaf" -> {<<"a">>}
          [] u.k = "vec" /\ u.e.k = "leaf" -> {<<"[", "0", "]">>, <<>>}
          [] u.k = "vec" -> {<<"[", "0", "]", ".", "v">>}
          [] u.k = "map" /\ u.val.t = "u8" -> {<<"[", "a", "]">>}
          [] u.k = "map" -> {<<"[", "x", ":", "0", "]">>}
          [] u.k = "record" -> {<<"b">>}
          [] OTHER -> {<<"0">>, <<"a">>}

InputData(ty) == {<<"D">>}

\* The file names a multipart field may be sent with.
RawFileNames ==
    {<<>>, <<".", "a">>, <<"*", "a">>, <<"a", ":">>, <<"a", ">">>, <<"a", "<">>,
     <<"a", "/", "b">>, <<"a", "\\", "b">>, <<"a">>, <<"a", ".", "b">>,
     <<"a", ".", "b", ":">>, <<"/">>, <<".", ".">>, <<"a", "/", ".">>,
     <<"b", ".", "a", "/">>}

(***************************************************************************)
(* The state machine: one bind attempt by parse_form.                      *)
(***************************************************************************)
VARIABLES
    ty,         \* T, the target type
    options,    \* the options parse_form is called with
    storage,    \* "Str" (url-encoded) or "MultiPart"
    pc,         \* "start", "loop" or "done"
    context,    \* the top-level context: None, or Some(context)
    calls,      \* the protocol calls made on the top-level context
    result,     \* None, or Some(the Result parse_form returned)
    path,       \* a field name that a caller walks with a NameView
    cursor,     \* that NameView: None, or Some(view)
    ret,        \* None, or Some(what the last call on the name returned)
    form_context, \* None, or Some(a Context of context.rs)
    request,    \* None, or Some(the request that Form::from_data guards)
    outcome,    \* None, or Some(the Outcome that from_data returned)
    buffer,     \* the Buffer: its vector of strings and its mutex
    threads,    \* the callers of the Buffer, each at a point of its call
    body        \* None, or Some(the rest of the url-encoded body to be read)

vars == <<ty, options, storage, pc, context, calls, result, path, cursor,
          ret, form_context, request, outcome, buffer, threads, body>>

attempt == [context |-> context, calls |-> calls]

\* The number of fields pushed so far.
NumPushed == Cardinality({i \in 1..Len(calls) : calls[i].op \in {"push_value", "push_data"}})

InitWith(types) ==
    /\ ty \in types
    /\ options \in {Options_Lenient, Options_Strict}
    /\ storage \in {"Str", "MultiPart"}
    /\ pc = "start"
    /\ context = None
    /\ calls = <<>>
    /\ result = None
    /\ path = <<>>
    /\ cursor = None
    /\ ret = None
    /\ form_context = None
    /\ request = None
    /\ outcome = None
    /\ buffer = Buffer_new
    /\ threads = <<>>
    /\ body = None

(***************************************************************************)
(* form.rs: impl FromData for Form<T>.  The request is told by its content *)
(* type ("form", "form-data", "other" or "none"), by whether the content   *)
(* type has a boundary parameter, by whether the body can be read and by   *)
(* whether it fits the limit.                                              *)
(***************************************************************************)
Outcome_Success(value) == [kind |-> "Success", value |-> value]

Outcome_Failure(e) == [kind |-> "Failure", error |-> e]

Outcome_Forward(data) == [kind |-> "Forward", data |-> data]

\* The end of from_data: the result of parse_form becomes the outcome.
\* When parse_form was called by someone else there is no outcome.
from_data_return(req, res) ==
    IF ~req.some THEN None
    ELSE IF res.v.ok THEN Some(Outcome_Success(res.v.v))
    ELSE Some(Outcome_Failure(res.v.e))

\* A Storage::string that keeps a truncated body.
Storage_string_truncated(req) ==
    IF ~req.readable THEN Err(Errors_from("Io"))
    ELSE Ok("Str")

\* Storage::string
Storage_string(req) ==
    IF ~req.readable THEN Err(Errors_from("Io"))
    ELSE IF ~req.complete THEN Err(Errors_from("TooLarge"))
    ELSE Ok("Str")

\* Storage::multipart
Storage_multipart(req) ==
    IF req.content_type = "none" THEN Err(Errors_from("Multipart"))
    ELSE IF ~req.boundary THEN Err(Errors_from("Multipart"))
    ELSE Ok("MultiPart")

\* A guard that forwards a multipart request that has no boundary.
from_data_storage_forward(req) ==
    IF req.content_type = "form" THEN Some(Storage_string(req))
    ELSE IF req.content_type = "form-data" /\ req.boundary THEN Some(Storage_multipart(req))
    ELSE None

\* from_data, the match on req.content_type(): None stands for the arm
\* that forwards.
from_data_storage(req) ==
    IF req.content_type = "form" THEN Some(Storage_string(req))
    ELSE IF req.content_type = "form-data" THEN Some(Storage_multipart(req))
    ELSE None

Requests ==
    [content_type : {"form", "form-data", "other", "none"},
     boundary : BOOLEAN, readable : BOOLEAN, complete : BOOLEAN, data : {"body"}]

InitData ==
    /\ ty \in LeafTypes
    /\ options = Options_Lenient
    /\ storage = "None"
    /\ pc = "guard"
    /\ context = None
    /\ calls = <<>>
    /\ result = None
    /\ path = <<>>
    /\ cursor = None
    /\ ret = None
    /\ form_context = None
    /\ request \in {Some(r) : r \in Requests}
    /\ outcome = None
    /\ buffer = Buffer_new
    /\ threads = <<>>
    /\ body = None

\* Form::from_data up to its call of parse_form(req, storage,
\* Options::Lenient), or to its early return.
FromData ==
    /\ pc = "guard"
    /\ \E st \in {from_data_storage(request.v)} :
         IF ~st.some
         THEN /\ outcome' = Some(Outcome_Forward(request.v.data))
              /\ pc' = "done"
              /\ UNCHANGED <<storage, options>>
         ELSE IF ~st.v.ok
         THEN /\ outcome' = Some(Outcome_Failure(st.v.e))
              /\ pc' = "done"
              /\ UNCHANGED <<storage, options>>
         ELSE /\ storage' = st.v.v
              /\ options' = Options_Lenient
              /\ pc' = "start"
              /\ UNCHANGED outcome
    /\ UNCHANGED <<ty, context, calls, result, path, cursor, ret, form_context, request,
                 buffer, threads, body>>

\* let mut context = T::init(options);
Begin ==
    /\ pc = "start"
    /\ \E b \in {Call_init(ty, options, attempt)} :
         context' = b.context /\ calls' = b.calls
    /\ pc' = "loop"
    /\ UNCHANGED <<ty, options, storage, result, path, cursor,
                 ret, form_context, request, outcome,
                 buffer, threads, body>>

\* Storage::Str: one decoded (name, value) pair is pushed.
StrField ==
    /\ pc = "loop" /\ storage = "Str" /\ NumPushed < MaxFields
    /\ \E name \in InputNames(ty), val \in InputValues(ty) :
         \E b \in {Call_push_value(ty, attempt, ValueField_from(name, val))} :
           context' = b.context /\ calls' = b.calls
    /\ UNCHANGED <<ty, options, storage, pc, result, path, cursor,
                 ret, form_context, request, outcome,
                 buffer, threads, body>>

\* Storage::Str: the pairs are exhausted.
StrEnd ==
    /\ pc = "loop" /\ storage = "Str"
    /\ \E out \in {finalize_and_return(ty, attempt)} :
         /\ context' = out.b.context /\ calls' = out.b.calls
         /\ result' = out.result /\ pc' = out.pc
         /\ outcome' = from_data_return(request, out.result)
    /\ UNCHANGED <<ty, options, storage, path, cursor,
                 ret, form_context, request,
                 buffer, threads, body>>

\* Storage::MultiPart: mp.next_field() fails.
MpNextFieldErr ==
    /\ pc = "loop" /\ storage = "MultiPart"
    /\ \E out \in {try_or_finalize(ty, attempt, TransportError)} :
         /\ context' = out.b.context /\ calls' = out.b.calls
         /\ result' = out.result /\ pc' = out.pc
         /\ outcome' = from_data_return(request, out.result)
    /\ UNCHANGED <<ty, options, storage, path, cursor,
                 ret, form_context, request,
                 buffer, threads, body>>

\* Storage::MultiPart: mp.next_field() is None.
MpEnd ==
    /\ pc = "loop" /\ storage = "MultiPart"
    /\ \E out \in {finalize_and_return(ty, attempt)} :
         /\ context' = out.b.context /\ calls' = out.b.calls
         /\ result' = out.result /\ pc' = out.pc
         /\ outcome' = from_data_return(request, out.result)
    /\ UNCHANGED <<ty, options, storage, path, cursor,
                 ret, form_context, request,
                 buffer, threads, body>>

\* Storage::MultiPart: a field with a content type is pushed as data.
MpDataField ==
    /\ pc = "loop" /\ storage = "MultiPart" /\ NumPushed < MaxFields
    /\ \E name \in InputDataNames(ty), data \in InputData(ty) :
         \E b \in {Call_push_data(ty, attempt, DataField_of(name, None, data))} :
           context' = b.context /\ calls' = b.calls
    /\ UNCHANGED <<ty, options, storage, pc, result, path, cursor,
                 ret, form_context, request, outcome,
                 buffer, threads, body>>

\* Storage::MultiPart: a field with a content type and a file name is
\* pushed as data, its file name sanitized.
MpFileField ==
    /\ pc = "loop" /\ storage = "MultiPart" /\ NumPushed < MaxFields
    /\ \E name \in InputDataNames(ty), data \in InputData(ty), file_name \in RawFileNames :
         \E b \in {Call_push_data(ty, attempt,
                       DataField_of(name, sanitize(file_name), Data_from(data, file_name)))} :
           context' = b.context /\ calls' = b.calls
    /\ UNCHANGED <<ty, options, storage, pc, result, path, cursor,
                 ret, form_context, request, outcome,
                 buffer, threads, body>>

\* Storage::MultiPart: a field without a content type, whose text is read.
MpTextField ==
    /\ pc = "loop" /\ storage = "MultiPart" /\ NumPushed < MaxFields
    /\ \E name \in InputNames(ty), text \in InputValues(ty) :
         \E b \in {Call_push_value(ty, attempt, ValueField_from(name, text))} :
           context' = b.context /\ calls' = b.calls
    /\ UNCHANGED <<ty, options, storage, pc, result, path, cursor,
                 ret, form_context, request, outcome,
                 buffer, threads, body>>

\* Storage::MultiPart: a field without a content type, whose text() fails.
MpTextErr ==
    /\ pc = "loop" /\ storage = "MultiPart"
    /\ \E out \in {try_or_finalize(ty, attempt, TransportError)} :
         /\ context' = out.b.context /\ calls' = out.b.calls
         /\ result' = out.result /\ pc' = out.pc
         /\ outcome' = from_data_return(request, out.result)
    /\ UNCHANGED <<ty, options, storage, path, cursor,
                 ret, form_context, request,
                 buffer, threads, body>>

Next ==
    \/ Begin
    \/ StrField
    \/ StrEnd
    \/ MpNextFieldErr
    \/ MpEnd
    \/ MpDataField
    \/ MpTextField
    \/ MpTextErr

NextData == FromData \/ Next

\* Bind attempts in which multipart fields carry file names.
NextFile == Next \/ MpFileField

InitFile == InitWith({T_leaf("data")})

SpecFile == InitFile /\ [][NextFile]_vars

SpecData == InitData /\ [][NextData]_vars

(***************************************************************************)
(* A caller that walks a field name with a NameView, as the adapters do:   *)
(* NameView::new, then shift after shift.                                  *)
(***************************************************************************)
NameChars == {"a", "[", "]", ".", "="}

Names == UNION {[1..n -> NameChars] : n \in 0..MaxNameLen}

InitName ==
    /\ ty = T_leaf("str")
    /\ options = Options_Lenient
    /\ storage = "Str"
    /\ pc = "start"
    /\ context = None
    /\ calls = <<>>
    /\ result = None
    /\ path \in Names
    /\ cursor = None
    /\ ret = None
    /\ form_context = None
    /\ request = None
    /\ outcome = None
    /\ buffer = Buffer_new
    /\ threads = <<>>
    /\ body = None

\* let view = NameView::new(name);
ViewNew ==
    /\ ~cursor.some
    /\ cursor' = Some(NameView_new(path))
    /\ UNCHANGED <<ty, options, storage, pc, context, calls, result, path,
                 ret, form_context, request, outcome,
                 buffer, threads, body>>

\* view.shift();
ViewShift ==
    /\ cursor.some
    /\ cursor' = Some(NameView_shift(cursor.v))
    /\ UNCHANGED <<ty, options, storage, pc, context, calls, result, path,
                 ret, form_context, request, outcome,
                 buffer, threads, body>>

NextName == ViewNew \/ ViewShift

SpecName == InitName /\ [][NextName]_vars

\* A caller that keeps shifting, as the iterators of Name::keys and
\* Name::prefixes do until the view is terminal.
SpecNameFair == SpecName /\ WF_vars(NextName)

(***************************************************************************)
(* A caller of the operations of Name on a name: comparison with another   *)
(* name, hashing, keys() and prefixes().                                   *)
(***************************************************************************)
OtherNames == UNION {[1..n -> NameChars] : n \in 0..MaxOtherLen}

\* name == other
NameEq ==
    /\ ~ret.some
    /\ \E other \in OtherNames :
         ret' = Some([fn |-> "eq", other |-> other, out |-> Name_eq(path, other)])
    /\ UNCHANGED <<ty, options, storage, pc, context, calls, result, path, cursor,
                   form_context, request, outcome,
                 buffer, threads, body>>

\* name.hash(state)
NameHash ==
    /\ ~ret.some
    /\ ret' = Some([fn |-> "hash", other |-> <<>>, out |-> Name_hash(path)])
    /\ UNCHANGED <<ty, options, storage, pc, context, calls, result, path, cursor,
                   form_context, request, outcome,
                 buffer, threads, body>>

\* name.keys()
NameKeys ==
    /\ ~ret.some
    /\ ret' = Some([fn |-> "keys", other |-> <<>>, out |-> Name_keys(path)])
    /\ UNCHANGED <<ty, options, storage, pc, context, calls, result, path, cursor,
                   form_context, request, outcome,
                 buffer, threads, body>>

\* name.prefixes().last()
NamePrefixesLast ==
    /\ ~ret.some
    /\ ret' = Some([fn |-> "prefixes_last", other |-> <<>>,
                    out |-> Iter_last(Name_prefixes(path))])
    /\ UNCHANGED <<ty, options, storage, pc, context, calls, result, path, cursor,
                   form_context, request, outcome,
                 buffer, threads, body>>

NextOps == NameEq \/ NameHash \/ NameKeys \/ NamePrefixesLast

SpecOps == InitName /\ [][NextOps]_vars

(***************************************************************************)
(* name.rs: NameViewCow, the name an error carries; context.rs: Context,   *)
(* which files errors under their names and looks them up by the prefixes  *)
(* of a queried name.                                                      *)
(***************************************************************************)
\* impl From<NameView> for NameViewCow
NameViewCow_from(nv) == [left |-> NameView_as_name(nv), right |-> <<>>]

\* Iterator::chain
Iter_chain(a, b) ==
    [ends |-> a.ends /\ b.ends,
     items |-> IF a.ends THEN a.items \o b.items ELSE a.items]

\* NameViewCow::keys
NameViewCow_keys(cow) == Iter_chain(Name_keys(cow.left), Name_keys(cow.right))

\* impl indexmap::Equivalent<NameViewCow> for Name
Name_equivalent(name, cow) ==
    LET out == Iter_eq(Name_keys(name), NameViewCow_keys(cow))
    IN  out.returns /\ out.value

\* impl PartialEq for NameViewCow
NameViewCow_eq(cow, other) ==
    LET out == Iter_eq(NameViewCow_keys(cow), NameViewCow_keys(other))
    IN  out.returns /\ out.value

\* #[derive(Default)] struct Context
Context_default ==
    [errors |-> <<>>, values |-> <<>>, data_values |-> <<>>, other_errors |-> <<>>]

\* IndexMap::get_mut(name), then errors.push(e): the entries of the map
\* with e appended to the entry whose key is name.
Context_errors_push(entries, e) ==
    [i \in 1..Len(entries) |->
        IF NameViewCow_eq(entries[i].key, e.name.v)
        THEN [entries[i] EXCEPT !.value = Append(@, e)]
        ELSE entries[i]]

\* Context::add_errors, one turn of its loop.
Context_add_error(ctx, e) ==
    IF e.name.some
    THEN IF \E i \in 1..Len(ctx.errors) : NameViewCow_eq(ctx.errors[i].key, e.name.v)
         THEN [ctx EXCEPT !.errors = Context_errors_push(@, e)]
         ELSE [ctx EXCEPT !.errors = Append(@, [key |-> e.name.v, value |-> <<e>>])]
    ELSE [ctx EXCEPT !.other_errors = Append(@, e)]

\* Context::add_errors
RECURSIVE Context_add_errors(_, _)
Context_add_errors(ctx, errors) ==
    IF errors = <<>> THEN ctx
    ELSE Context_add_errors(Context_add_error(ctx, Head(errors)), Tail(errors))

\* self.errors.get(name): the errors filed under a key equivalent to name,
\* none when there is no such key.
Context_errors_get(ctx, name) ==
    IF \E i \in 1..Len(ctx.errors) : Name_equivalent(name, ctx.errors[i].key)
    THEN ctx.errors[CHOOSE i \in 1..Len(ctx.errors) :
                        Name_equivalent(name, ctx.errors[i].key)].value
    ELSE <<>>

\* prefixes.filter_map(|name| self.errors.get(name)).map(|e| e.iter()).flatten()
RECURSIVE Context_errors_flatten(_, _)
Context_errors_flatten(ctx, prefixes) ==
    IF prefixes = <<>> THEN <<>>
    ELSE Context_errors_get(ctx, Head(prefixes))
             \o Context_errors_flatten(ctx, Tail(prefixes))

\* A lookup under the queried name alone, not under its prefixes.
Context_errors_exact(ctx, name) ==
    [ends |-> Name_prefixes(name).ends,
     items |-> Context_errors_get(ctx, name)]

\* Context::errors
Context_errors(ctx, name) ==
    [ends |-> Name_prefixes(name).ends,
     items |-> Context_errors_flatten(ctx, Name_prefixes(name).items)]

\* Context::has_error: self.errors(name).next().is_some(), which returns
\* once an error is met or the prefixes end.
Context_has_error(ctx, name) ==
    [returns |-> Context_errors(ctx, name).items # <<>> \/ Context_errors(ctx, name).ends,
     value |-> Context_errors(ctx, name).items # <<>>]

\* Context::all_errors
RECURSIVE Context_all_filed(_)
Context_all_filed(entries) ==
    IF entries = <<>> THEN <<>>
    ELSE Head(entries).value \o Context_all_filed(Tail(entries))

Context_all_errors(ctx) == Context_all_filed(ctx.errors) \o ctx.other_errors

\* The names that errors are attached to (each the whole of a field's name,
\* a view at its end), and the names that are queried.
AttachNames ==
    {<<"a">>, <<"a", ".", "b">>, <<"a", "[", "b", "]">>, <<"b">>}

QueryNames ==
    {<<"a">>, <<"a", ".", "b">>, <<"a", "[", "b", "]">>, <<"b">>,
     <<"a", ".", "b", ".", "c">>, <<"a", ".", "b", "[", "0", "]">>,
     <<>>, <<"a", "[", "b", "]", "=">>}

ErrorInputs ==
    {[kind |-> k, name |-> n, value |-> None] :
        k \in {"Missing", "Duplicate"},
        n \in {None} \cup {Some(NameViewCow_from([name |-> a, start |-> 0, end |-> Len(a)])) :
                                a \in AttachNames}}

ErrorBatches == UNION {[1..n -> ErrorInputs] : n \in 1..2}

InitContext ==
    /\ ty = T_leaf("str")
    /\ options = Options_Lenient
    /\ storage = "Str"
    /\ pc = "start"
    /\ context = None
    /\ calls = <<>>
    /\ result = None
    /\ path \in QueryNames
    /\ cursor = None
    /\ ret = None
    /\ form_context = Some(Context_default)
    /\ request = None
    /\ outcome = None
    /\ buffer = Buffer_new
    /\ threads = <<>>
    /\ body = None

\* context.add_errors(errors)
ContextAddErrors ==
    /\ ~ret.some
    /\ \E errors \in ErrorBatches :
         /\ Len(Context_all_errors(form_context.v)) + Len(errors) <= MaxErrors
         /\ form_context' = Some(Context_add_errors(form_context.v, errors))
    /\ UNCHANGED <<ty, options, storage, pc, context, calls, result, path, cursor,
                   ret, request, outcome,
                 buffer, threads, body>>

\* context.errors(name)
ContextErrors ==
    /\ ~ret.some
    /\ ret' = Some([fn |-> "errors", out |-> Context_errors(form_context.v, path)])
    /\ UNCHANGED <<ty, options, storage, pc, context, calls, result, path, cursor,
                   form_context, request, outcome,
                 buffer, threads, body>>

\* context.has_error(name)
ContextHasError ==
    /\ ~ret.some
    /\ ret' = Some([fn |-> "has_error", out |-> Context_has_error(form_context.v, path)])
    /\ UNCHANGED <<ty, options, storage, pc, context, calls, result, path, cursor,
                   form_context, request, outcome,
                 buffer, threads, body>>

NextContext == ContextAddErrors \/ ContextErrors \/ ContextHasError

SpecContext == InitContext /\ [][NextContext]_vars

InitLeaf == InitWith(LeafTypes)

InitVec == InitWith(VecTypes)

InitMap == InitWith(MapTypes)

Init == InitWith(LeafTypes \cup VecTypes \cup MapTypes)

InitPair == InitWith(PairTypes)

SpecPair == InitPair /\ [][Next]_vars

InitWrap == InitWith(WrapTypes)

SpecWrap == InitWrap /\ [][Next]_vars

InitAgg == InitWith(AggTypes)

SpecAgg == InitAgg /\ [][Next]_vars

InitOrder == InitWith(OrderTypes)

SpecOrder == InitOrder /\ [][Next]_vars

InitRecord == InitWith(RecordTypes)

SpecRecord == InitRecord /\ [][Next]_vars

InitStrict == InitWith(StrictTypes)

SpecStrict == InitStrict /\ [][Next]_vars

SpecLeaf == InitLeaf /\ [][Next]_vars

SpecVec == InitVec /\ [][Next]_vars

SpecMap == InitMap /\ [][Next]_vars

Spec == Init /\ [][Next]_vars

(***************************************************************************)
(* buffer.rs: the calls on a Buffer.  A caller is at one point of          *)
(* push_one: before the lock, holding it before the push, holding it after *)
(* the push with `last` pointing at the new slot, past the unlock, or back *)
(* with its slice.  push_split and push_two are push_one followed by a     *)
(* split of the slice that push_one returned.                              *)
(***************************************************************************)
\* The largest number of calls made on one Buffer.
MaxPushes == 3

\* The largest number of callers of one Buffer.
MaxThreads == 2

\* The strings handed to the Buffer.
BufferStrings == {<<"a", "b">>, <<"c">>}

\* A &str into the heap data of one String of the vector: that data never
\* moves, whatever happens to the vector's slots.
Str_of(entry, from, to) == [entry |-> entry, from |-> from, to |-> to]

\* A &str made from a slot that was read after its allocation was freed.
Wild == Str_of(0, 0, 0)

\* What a &str denotes in a buffer.
Denotes(buf, s) ==
    IF s = Wild THEN <<"?">> ELSE Slice(buf.strings[s.entry], s.from, s.to)

\* A Vec::push that overwrites the last slot in place of adding one.
Vec_push_in_place(buf, string) ==
    LET n == Len(buf.strings)
    IN  IF n = 0
        THEN {[buf EXCEPT !.strings = <<string>>, !.cap = 1, !.alloc = @ + 1]}
        ELSE {[buf EXCEPT !.strings = [@ EXCEPT ![n] = string]]}

\* Vec::push (buffer.rs line 42): a full vector moves its slots to a new and
\* larger allocation, by as little or as much as the library chooses.
Vec_push(buf, string) ==
    LET n == Len(buf.strings)
    IN  IF n < buf.cap
        THEN {[buf EXCEPT !.strings = Append(@, string)]}
        ELSE {[buf EXCEPT !.strings = Append(@, string), !.cap = c,
                          !.alloc = @ + 1] : c \in {n + 1, n + 2}}

\* vec.last().unwrap() (line 43): a reference to the last slot.
Vec_last(buf) == [alloc |-> buf.alloc, index |-> Len(buf.strings)]

\* `last` as the &str that push_one returns (line 45): the slot is read
\* here, and a slot whose allocation is gone reads as anything.
Deref_last(buf, last) ==
    LET s == Str_of(last.index, 0, Len(buf.strings[last.index]))
    IN  IF last.alloc = buf.alloc THEN {s} ELSE {s, Wild}

\* push_split, after its push_one: the two parts of the buffered string.
push_split_parts(buffered, len) ==
    IF buffered = Wild THEN <<Wild, Wild>>
    ELSE <<Str_of(buffered.entry, 0, len),
           Str_of(buffered.entry, len, buffered.to)>>

\* A caller that is in no call.
Thread_idle == [pc |-> "idle", op |-> "", string |-> <<>>, len |-> 0,
                last |-> None, past |-> <<>>]

\* The calls a caller can make: the string that reaches push_one, and the
\* length at which push_split and push_two split it.
BufferCalls ==
    {[op |-> "push_one", string |-> s, len |-> 0] : s \in BufferStrings}
    \cup {[op |-> "push_split", string |-> s, len |-> n] :
            s \in BufferStrings, n \in {0, 1}}
    \cup {[op |-> "push_two", string |-> a \o b, len |-> Len(a)] :
            a \in {<<>>, <<"a">>}, b \in {<<"b">>}}

\* The calls made so far.
NumCalls ==
    LET RECURSIVE Sum(_)
        Sum(S) == IF S = {} THEN 0
                  ELSE LET t == CHOOSE x \in S : TRUE
                       IN  Len(threads[t].past)
                           + (IF threads[t].pc = "idle" THEN 0 ELSE 1)
                           + Sum(S \ {t})
    IN  Sum(DOMAIN threads)

InitBufferWith(n) ==
    /\ ty = T_leaf("str")
    /\ options = [strict |-> FALSE]
    /\ storage = "None"
    /\ pc = "buffer"
    /\ context = None
    /\ calls = <<>>
    /\ result = None
    /\ path = <<>>
    /\ cursor = None
    /\ ret = None
    /\ form_context = None
    /\ request = None
    /\ outcome = None
    /\ buffer = Buffer_new
    /\ threads = [t \in 1..n |-> Thread_idle]
    /\ body = None

\* One caller after the other.
InitBufferAlone == InitBufferWith(1)

\* Callers at the same time.
InitBuffer == \E n \in 2..MaxThreads : InitBufferWith(n)

\* A caller enters push_one, push_split or push_two.
BufferCall ==
    /\ pc = "buffer"
    /\ NumCalls < MaxPushes
    /\ \E t \in DOMAIN threads, c \in BufferCalls :
         /\ threads[t].pc = "idle"
         /\ threads' = [threads EXCEPT ![t] =
                [@ EXCEPT !.pc = "lock", !.op = c.op, !.string = c.string,
                          !.len = c.len, !.last = None]]
    /\ UNCHANGED <<ty, options, storage, pc, context, calls, result, path,
                   cursor, ret, form_context, request, outcome, buffer, body>>

\* self.mutex.lock() (line 40)
BufferLock ==
    /\ pc = "buffer"
    /\ ~buffer.mutex
    /\ \E t \in DOMAIN threads :
         /\ threads[t].pc = "lock"
         /\ threads' = [threads EXCEPT ![t].pc = "push"]
    /\ buffer' = [buffer EXCEPT !.mutex = TRUE]
    /\ UNCHANGED <<ty, options, storage, pc, context, calls, result, path,
                   cursor, ret, form_context, request, outcome, body>>

\* vec.push(string.into()) and vec.last().unwrap() (lines 41 to 43)
BufferPush ==
    /\ pc = "buffer"
    /\ \E t \in DOMAIN threads :
         /\ threads[t].pc = "push"
         /\ \E vec \in Vec_push(buffer, threads[t].string) :
              /\ buffer' = vec
              /\ threads' = [threads EXCEPT ![t] =
                     [@ EXCEPT !.pc = "unlock", !.last = Some(Vec_last(vec))]]
    /\ UNCHANGED <<ty, options, storage, pc, context, calls, result, path,
                   cursor, ret, form_context, request, outcome, body>>

\* string.into() or vec.push panics (line 42): the caller unwinds, and no
\* statement of push_one runs on the way out.
BufferPanic ==
    /\ pc = "buffer"
    /\ \E t \in DOMAIN threads :
         /\ threads[t].pc = "push"
         /\ threads' = [threads EXCEPT ![t].pc = "panicked"]
    /\ UNCHANGED <<ty, options, storage, pc, context, calls, result, path,
                   cursor, ret, form_context, request, outcome, buffer, body>>

\* self.mutex.unlock() (line 44)
BufferUnlock ==
    /\ pc = "buffer"
    /\ \E t \in DOMAIN threads :
         /\ threads[t].pc = "unlock"
         /\ threads' = [threads EXCEPT ![t].pc = "return"]
    /\ buffer' = [buffer EXCEPT !.mutex = FALSE]
    /\ UNCHANGED <<ty, options, storage, pc, context, calls, result, path,
                   cursor, ret, form_context, request, outcome, body>>

\* `last` (line 45), and what push_split makes of it (lines 50 to 53)
BufferReturn ==
    /\ pc = "buffer"
    /\ \E t \in DOMAIN threads :
         /\ threads[t].pc = "return"
         /\ \E buffered \in Deref_last(buffer, threads[t].last.v) :
              LET out == IF threads[t].op = "push_one" THEN <<buffered>>
                         ELSE push_split_parts(buffered, threads[t].len)
              IN  threads' = [threads EXCEPT ![t] =
                      [@ EXCEPT !.pc = "idle",
                                !.past = Append(@,
                                    [op |-> threads[t].op,
                                     string |-> threads[t].string,
                                     len |-> threads[t].len,
                                     out |-> out,
                                     was |-> [i \in 1..Len(out) |->
                                                Denotes(buffer, out[i])],
                                     size |-> Len(buffer.strings)])]]
    /\ UNCHANGED <<ty, options, storage, pc, context, calls, result, path,
                   cursor, ret, form_context, request, outcome, buffer, body>>

NextBuffer ==
    \/ BufferCall
    \/ BufferLock
    \/ BufferPush
    \/ BufferUnlock
    \/ BufferReturn

NextUnwind == NextBuffer \/ BufferPanic

SpecBufferAlone == InitBufferAlone /\ [][NextBuffer]_vars

SpecBuffer == InitBuffer /\ [][NextBuffer]_vars

SpecUnwind == InitBuffer /\ [][NextUnwind]_vars

(***************************************************************************)
(* form.rs: the url-encoded body.  parse_raw_values cuts the body at '&',  *)
(* drops the empty pieces and cuts each piece at its first '='; parse_form *)
(* decodes both parts and keeps what decoding had to allocate in the       *)
(* Buffer.                                                                 *)
(***************************************************************************)
\* The largest number of '&'-separated pieces of a body.
MaxSegments == 3

HexDigits == <<"0", "1", "2", "3", "4", "5", "6", "7", "8", "9",
               "A", "B", "C", "D", "E", "F">>

HexDigitsLower == <<"0", "1", "2", "3", "4", "5", "6", "7", "8", "9",
                    "a", "b", "c", "d", "e", "f">>

\* The value of a hexadecimal digit of either case, -1 for any other
\* character.
Hex(c) ==
    IF \E i \in 1..Len(HexDigits) : c \in {HexDigits[i], HexDigitsLower[i]}
    THEN (CHOOSE i \in 1..Len(HexDigits) :
              c \in {HexDigits[i], HexDigitsLower[i]}) - 1
    ELSE -1

\* The character of a byte, for the bytes that the bodies encode.
Chr(n) ==
    CASE n = 32 -> " "
      [] n = 37 -> "%"
      [] n = 38 -> "&"
      [] n = 61 -> "="
      [] OTHER -> "?"

\* Percent-decoding: '%' and two hexadecimal digits become one byte, and
\* every other character stays.
RECURSIVE Percent_decode(_)
Percent_decode(s) ==
    IF s = <<>> THEN <<>>
    ELSE IF s[1] = "%" /\ Len(s) >= 3 /\ Hex(s[2]) # -1 /\ Hex(s[3]) # -1
    THEN <<Chr(16 * Hex(s[2]) + Hex(s[3]))>> \o Percent_decode(SubSeq(s, 4, Len(s)))
    ELSE <<s[1]>> \o Percent_decode(Tail(s))

\* RawStr::url_decode_lossy: the decoded text, borrowed when nothing was
\* decoded and owned otherwise.
url_decode_lossy(s) ==
    LET text == Percent_decode(s)
    IN  [owned |-> Len(text) # Len(s), text |-> text]

\* ValueField::parse: the piece cut at its first '='.
ValueField_parse(s) ==
    LET i == Find(s, {"="})
    IN  IF i = -1 THEN ValueField_from(s, <<>>)
        ELSE ValueField_from(Slice(s, 0, i), Slice(s, i + 1, Len(s)))

\* string.split('&'): the first piece, and the text after its '&'.
Split_first(s) ==
    LET i == Find(s, {"&"})
    IN  IF i = -1 THEN [piece |-> s, rest |-> <<>>]
        ELSE [piece |-> Slice(s, 0, i), rest |-> Slice(s, i + 1, Len(s))]

\* Form::parse_raw_values, one step of the iterator: the next raw (name,
\* value), if there is one, and the text still to be read.
RECURSIVE parse_raw_values_next(_)
parse_raw_values_next(s) ==
    IF s = <<>> THEN [item |-> None, rest |-> <<>>]
    ELSE LET f == Split_first(s)
         IN  IF f.piece = <<>> THEN parse_raw_values_next(f.rest)
             ELSE LET field == ValueField_parse(f.piece)
                  IN  [item |-> Some([name |-> NameView_source(field.name),
                                      val |-> field.value]),
                       rest |-> f.rest]

\* push_one by the one caller there is: the vector after the push, and the
\* slice of the new entry.
Buffer_push_one(buf, string) ==
    {[buffer |-> vec,
      out |-> CHOOSE s \in Deref_last(vec, Vec_last(vec)) : TRUE] :
        vec \in Vec_push(buf, string)}

\* push_split by the one caller there is.
Buffer_push_split(buf, string, len) ==
    {[buffer |-> p.buffer, out |-> push_split_parts(p.out, len)] :
        p \in Buffer_push_one(buf, string)}

\* A name_val whose two owned parts are cut at the length of the value.
name_val_cut_at_value(buf, name, val) ==
    LET n == url_decode_lossy(name)
        v == url_decode_lossy(val)
    IN  CASE ~n.owned /\ ~v.owned ->
               {[buffer |-> buf, name |-> n.text, val |-> v.text]}
          [] ~n.owned /\ v.owned ->
               {[buffer |-> p.buffer, name |-> n.text,
                 val |-> Denotes(p.buffer, p.out)] :
                   p \in Buffer_push_one(buf, v.text)}
          [] n.owned /\ ~v.owned ->
               {[buffer |-> p.buffer, name |-> Denotes(p.buffer, p.out),
                 val |-> v.text] : p \in Buffer_push_one(buf, n.text)}
          [] OTHER ->
               {[buffer |-> p.buffer, name |-> Denotes(p.buffer, p.out[1]),
                 val |-> Denotes(p.buffer, p.out[2])] :
                   p \in Buffer_push_split(buf, n.text \o v.text, Len(v.text))}

\* The match of parse_form's Str branch: the decoded name and value as
\* the texts that the pushed field borrows, from the body or from the
\* Buffer.
name_val(buf, name, val) ==
    LET n == url_decode_lossy(name)
        v == url_decode_lossy(val)
    IN  CASE ~n.owned /\ ~v.owned ->
               {[buffer |-> buf, name |-> n.text, val |-> v.text]}
          [] ~n.owned /\ v.owned ->
               {[buffer |-> p.buffer, name |-> n.text,
                 val |-> Denotes(p.buffer, p.out)] :
                   p \in Buffer_push_one(buf, v.text)}
          [] n.owned /\ ~v.owned ->
               {[buffer |-> p.buffer, name |-> Denotes(p.buffer, p.out),
                 val |-> v.text] : p \in Buffer_push_one(buf, n.text)}
          [] OTHER ->
               {[buffer |-> p.buffer, name |-> Denotes(p.buffer, p.out[1]),
                 val |-> Denotes(p.buffer, p.out[2])] :
                   p \in Buffer_push_split(buf, n.text \o v.text, Len(n.text))}

\* The pieces that the bodies are made of.
BodyPieces ==
    {<<>>, <<"a">>, <<"=", "b">>, <<"a", "=", "b">>, <<"a", "=", "b", "=", "c">>,
     <<"a", "=", "%", "2", "0", "b">>, <<"%", "2", "0", "a", "=", "b">>,
     <<"%", "2", "6", "=", "b", "%", "3", "d">>, <<"a", "=", "%", "2">>}

\* The pieces joined by '&'.
RECURSIVE Join(_)
Join(ps) ==
    IF ps = <<>> THEN <<>>
    ELSE IF Len(ps) = 1 THEN ps[1]
    ELSE ps[1] \o <<"&">> \o Join(Tail(ps))

Bodies ==
    {Join(ps) : ps \in UNION {[1..n -> BodyPieces] : n \in 0..MaxSegments}}

UrlTypes == {T_leaf("str"), T_leaf("u8"), T_vec(T_leaf("str"))}

InitUrl ==
    /\ ty \in UrlTypes
    /\ options \in {Options_Lenient, Options_Strict}
    /\ storage = "Str"
    /\ pc = "start"
    /\ context = None
    /\ calls = <<>>
    /\ result = None
    /\ path = <<>>
    /\ cursor = None
    /\ ret = None
    /\ form_context = None
    /\ request \in {Some(b) : b \in Bodies}
    /\ outcome = None
    /\ buffer = Buffer_new
    /\ threads = <<>>
    /\ body \in {Some(request.v)}

\* Storage::Str: the next raw pair is decoded and pushed (form.rs 137-150).
UrlField ==
    /\ pc = "loop" /\ storage = "Str" /\ body.some
    /\ LET next == parse_raw_values_next(body.v)
       IN  /\ next.item.some
           /\ body' = Some(next.rest)
           /\ \E nv \in name_val(buffer, next.item.v.name, next.item.v.val) :
                /\ buffer' = nv.buffer
                /\ \E b \in {Call_push_value(ty, attempt,
                                             ValueField_from(nv.name, nv.val))} :
                     context' = b.context /\ calls' = b.calls
    /\ UNCHANGED <<ty, options, storage, pc, result, path, cursor,
                   ret, form_context, request, outcome, threads>>

\* Storage::Str: no raw pair is left (form.rs 152).
UrlEnd ==
    /\ pc = "loop" /\ storage = "Str" /\ body.some
    /\ ~parse_raw_values_next(body.v).item.some
    /\ body' = Some(<<>>)
    /\ \E out \in {finalize_and_return(ty, attempt)} :
         /\ context' = out.b.context /\ calls' = out.b.calls
         /\ result' = out.result /\ pc' = out.pc
    /\ UNCHANGED <<ty, options, storage, path, cursor, ret, form_context,
                   request, outcome, buffer, threads>>

NextUrl == Begin \/ UrlField \/ UrlEnd

SpecUrl == InitUrl /\ [][NextUrl]_vars

(***************************************************************************)
(* data/from_data.rs: the data guards Option<T> and Result<T, T::Error>,   *)
(* each made from the outcome of T's from_data.  T is the Form<T> above.   *)
(***************************************************************************)
\* impl FromData for Result<T, T::Error>
Result_from_data(out) ==
    CASE out.kind = "Success" -> Outcome_Success(Ok(out.value))
      [] out.kind = "Failure" -> Outcome_Success(Err(out.error))
      [] OTHER -> Outcome_Forward(out.data)

\* An Option<T> that forwards when T forwards.
Option_from_data_forwarding(out) ==
    CASE out.kind = "Success" -> Outcome_Success(Some(out.value))
      [] out.kind = "Failure" -> Outcome_Success(None)
      [] OTHER -> Outcome_Forward(out.data)

\* impl FromData for Option<T>
Option_from_data(out) ==
    CASE out.kind = "Success" -> Outcome_Success(Some(out.value))
      [] OTHER -> Outcome_Success(None)

\* Option<Form<T>> as the data guard: T::from_data has returned.
OptionFromData ==
    /\ outcome.some /\ ~ret.some
    /\ ret' = Some([guard |-> "Option", inner |-> outcome.v,
                    out |-> Option_from_data(outcome.v)])
    /\ UNCHANGED <<ty, options, storage, pc, context, calls, result, path,
                   cursor, form_context, request, outcome, buffer, threads,
                   body>>

\* Result<Form<T>, Errors> as the data guard: T::from_data has returned.
ResultFromData ==
    /\ outcome.some /\ ~ret.some
    /\ ret' = Some([guard |-> "Result", inner |-> outcome.v,
                    out |-> Result_from_data(outcome.v)])
    /\ UNCHANGED <<ty, options, storage, pc, context, calls, result, path,
                   cursor, form_context, request, outcome, buffer, threads,
                   body>>

NextGuards == NextData \/ OptionFromData \/ ResultFromData

SpecGuards == InitData /\ [][NextGuards]_vars

(***************************************************************************)
(* What the properties below read off a state.                             *)
(***************************************************************************)
IsPush(c) == c.op \in {"push_value", "push_data"}

\* The pushes made so far, in order.
Pushes == SelectSeq(calls, IsPush)

LastKind(errors) == IF Len(errors) = 0 THEN "" ELSE errors[Len(errors)].kind

\* parse_form returned because the transport failed.
TransportFailed ==
    pc = "done" /\ ~result.v.ok /\ LastKind(result.v.e) = "Multipart"

\* parse_form returned T::finalize(context) at the end of the fields.
EndedNormally == pc = "done" /\ ~TransportFailed

IsLeaf == Unwrapped(ty).k = "leaf"

LeafT == Unwrapped(ty).t

\* The top-level context was initialised strict.
InitialisedStrict == options.strict \/ ty.k = "strict"

\* What the leaf's parser answers to a pushed field.
PushResult(c) ==
    IF c.op = "push_value" THEN Leaf_from_value(LeafT, c.field)
    ELSE Leaf_from_data(LeafT, c.field)

FailsUnexpected(c) == ~PushResult(c).ok /\ LastKind(PushResult(c).e) = "Unexpected"

\* The index of the earliest push satisfying P, or 0.
FirstPush(P(_)) ==
    IF \E i \in 1..Len(Pushes) : P(Pushes[i])
    THEN CHOOSE i \in 1..Len(Pushes) :
             P(Pushes[i]) /\ \A j \in 1..(i - 1) : ~P(Pushes[j])
    ELSE 0

Succeeds(c) == PushResult(c).ok

Recorded(c) == ~FailsUnexpected(c)

(***************************************************************************)
(* C1.  In every bind attempt of parse_form the calls on the top-level     *)
(* context are one init, then only pushes, then, on every exit path        *)
(* (end of fields, failure of next_field, failure of text), one finalize   *)
(* as the last call; nothing is pushed after finalize.                     *)
(***************************************************************************)
C1_InitPushesFinalize ==
    /\ pc = "start" => calls = <<>> /\ ~context.some
    /\ pc = "loop" =>
         /\ Len(calls) >= 1 /\ calls[1].op = "init"
         /\ \A i \in 2..Len(calls) : IsPush(calls[i])
         /\ context.some /\ ~result.some
    /\ pc = "done" =>
         /\ Len(calls) >= 2 /\ calls[1].op = "init"
         /\ calls[Len(calls)].op = "finalize"
         /\ \A i \in 2..(Len(calls) - 1) : IsPush(calls[i])
         /\ ~context.some /\ result.some

\* A multipart attempt that pushed two fields and then lost the transport.
C1_Witness ==
    /\ TransportFailed
    /\ storage = "MultiPart"
    /\ Len(Pushes) = 2
    /\ calls[Len(calls)].op = "finalize"

(***************************************************************************)
(* C2.  Leaf adapter, first successful push wins: whenever a leaf holds a  *)
(* successful value, and whenever its finalize succeeds after some push    *)
(* succeeded, the value is the one parsed from the earliest push whose     *)
(* from_value/from_data succeeded.                                         *)
(***************************************************************************)
C2_FirstSuccessWins ==
    IsLeaf =>
      /\ (pc = "loop" /\ context.v.value.some /\ context.v.value.v.ok) =>
            /\ FirstPush(Succeeds) > 0
            /\ context.v.value.v.v = PushResult(Pushes[FirstPush(Succeeds)]).v
      /\ (EndedNormally /\ result.v.ok /\ FirstPush(Succeeds) > 0) =>
            result.v.v = PushResult(Pushes[FirstPush(Succeeds)]).v

\* A lenient u8 leaf given a=1 and then a=2 is bound to 1.
C2_Witness ==
    /\ EndedNormally /\ ty = T_leaf("u8") /\ ~options.strict
    /\ Len(Pushes) = 2
    /\ Pushes[1].op = "push_value" /\ Pushes[1].field.value = <<"1">>
    /\ Pushes[2].op = "push_value" /\ Pushes[2].field.value = <<"2">>
    /\ result.v.ok /\ result.v.v = 1

(***************************************************************************)
(* C3.  Duplicate leaf: two or more pushes that all parse successfully     *)
(* fail at finalize with one Duplicate error when the leaf was             *)
(* initialised strict, and bind to the first value when it was lenient.    *)
(***************************************************************************)
C3_DuplicateLeaf ==
    (/\ IsLeaf /\ EndedNormally
     /\ Len(Pushes) >= 2
     /\ \A i \in 1..Len(Pushes) : Succeeds(Pushes[i])) =>
        IF InitialisedStrict
        THEN ~result.v.ok /\ Len(result.v.e) = 1 /\ result.v.e[1].kind = "Duplicate"
        ELSE result.v.ok /\ result.v.v = PushResult(Pushes[1]).v

\* A strict u8 leaf given a=1 and then a=2 fails with Duplicate.
C3_Witness ==
    /\ EndedNormally /\ ty = T_leaf("u8") /\ options.strict
    /\ Len(Pushes) = 2
    /\ Pushes[1].op = "push_value" /\ Pushes[1].field.value = <<"1">>
    /\ Pushes[2].op = "push_value" /\ Pushes[2].field.value = <<"2">>
    /\ ~result.v.ok /\ result.v.e[1].kind = "Duplicate"

(***************************************************************************)
(* C4.  A leaf that received no push finalizes to the declared default of  *)
(* its type (false for bool), and fails with exactly one Missing error     *)
(* when the type declares none.                                            *)
(***************************************************************************)
C4_ZeroPushes ==
    (IsLeaf /\ EndedNormally /\ Len(Pushes) = 0) =>
        IF LeafT = "bool"
        THEN result.v.ok /\ result.v.v = FALSE
        ELSE ~result.v.ok /\ Len(result.v.e) = 1 /\ result.v.e[1].kind = "Missing"

\* A bool leaf without any field is bound to false.
C4_Witness ==
    /\ EndedNormally /\ ty = T_leaf("bool") /\ Len(Pushes) = 0
    /\ result.v.ok /\ result.v.v = FALSE

(***************************************************************************)
(* C5.  A push whose parser fails with Unexpected: a lenient leaf ignores  *)
(* it (the leaf stays empty, and the first push that does not fail so      *)
(* decides the leaf), a strict leaf records it and its finalize fails      *)
(* with it.  A value-only leaf fails so on a data field and a data-only    *)
(* leaf on a value field.                                                  *)
(***************************************************************************)
C5_UnexpectedPush ==
    IsLeaf =>
      /\ \A i \in 1..Len(Pushes) :
            ((Pushes[i].op = "push_data") # (LeafT = "data")) => FailsUnexpected(Pushes[i])
      /\ (pc = "loop" /\ ~InitialisedStrict) =>
            IF FirstPush(Recorded) = 0
            THEN ~context.v.value.some
            ELSE context.v.value = Some(PushResult(Pushes[FirstPush(Recorded)]))
      /\ (EndedNormally /\ InitialisedStrict /\ Len(Pushes) > 0
             /\ FailsUnexpected(Pushes[1])) =>
            ~result.v.ok /\ LastKind(result.v.e) = "Unexpected"

\* A lenient u8 leaf that ignored a data field and then took a=1.
C5_Witness ==
    /\ pc = "loop" /\ ty = T_leaf("u8") /\ ~options.strict
    /\ Len(Pushes) = 2
    /\ Pushes[1].op = "push_data" /\ FailsUnexpected(Pushes[1])
    /\ Pushes[2].op = "push_value"
    /\ context.v.value = Some(Ok(1))

(***************************************************************************)
(* C6.  As claimed: in lenient mode, after a push that left an error       *)
(* pending, a later push failing in another way than Unexpected overwrites *)
(* it, so that finalize reports the later error (here: the error with the  *)
(* later push's value).                                                    *)
(***************************************************************************)
FailsOtherwise(c) == ~PushResult(c).ok /\ ~FailsUnexpected(c)

\* The index of the last push that fails in another way than Unexpected.
LastFailure ==
    CHOOSE i \in 1..Len(Pushes) :
        FailsOtherwise(Pushes[i]) /\ \A j \in (i + 1)..Len(Pushes) : ~FailsOtherwise(Pushes[j])

IsVec == ty.k = "vec"

\* The first path key of a pushed field: None, or Some(key).
PushKey(c) == NameView_key(c.field.name)

\* Push i carries the key of the push just before it.
ContinuesRun(i) ==
    /\ i > 1
    /\ PushKey(Pushes[i - 1]).some /\ PushKey(Pushes[i]).some
    /\ PushKey(Pushes[i - 1]).v = PushKey(Pushes[i]).v

\* The last push of the run of pushes that push i is in.
RECURSIVE RunEnd(_)
RunEnd(i) == IF i < Len(Pushes) /\ ContinuesRun(i + 1) THEN RunEnd(i + 1) ELSE i

\* The element context after pushes i..j, each shifted, onto c.
RECURSIVE PushRun(_, _, _)
PushRun(c, i, j) ==
    IF i > j THEN c
    ELSE PushRun(IF Pushes[i].op = "push_value"
                 THEN FF_push_value(ty.e, c, Field_shift(Pushes[i].field))
                 ELSE FF_push_data(ty.e, c, Field_shift(Pushes[i].field)),
                 i + 1, j)

\* The element bound from pushes i..j alone.
BindRun(i, j) == FF_finalize(ty.e, PushRun(FF_init(ty.e, options), i, j))

\* The elements and the errors of the runs from push i on, added to acc;
\* End(i) is the last push of the run that starts at push i.
RECURSIVE BindRuns(_, _, _)
BindRuns(End(_), i, acc) ==
    IF i > Len(Pushes) THEN acc
    ELSE BindRuns(End, End(i) + 1,
                  IF BindRun(i, End(i)).ok
                  THEN [acc EXCEPT !.items = Append(@, BindRun(i, End(i)).v)]
                  ELSE [acc EXCEPT !.errors = @ \o BindRun(i, End(i)).e])

NoRuns == [items |-> <<>>, errors |-> <<>>]

ResultOf(acc) == IF Len(acc.errors) = 0 THEN Ok(acc.items) ELSE Err(acc.errors)

AllKeyed == \A i \in 1..Len(Pushes) : PushKey(Pushes[i]).some

SomeKeyless == \E i \in 1..Len(Pushes) : ~PushKey(Pushes[i]).some

AllKeyless == \A i \in 1..Len(Pushes) : ~PushKey(Pushes[i]).some

(***************************************************************************)
(* C7.  Vec<T> groups consecutive pushes by their first path key: a push   *)
(* whose key differs from the key of the push just before it finalizes the *)
(* current element (its value is appended, or its errors are) and opens a  *)
(* fresh one, also when its key was seen earlier.  So the bound sequence   *)
(* is made of the elements bound from each maximal run of consecutive      *)
(* pushes with one key, and [0].v, [1].v, [0].w binds three elements.      *)
(***************************************************************************)
C7_GroupsByKeyChange ==
    (IsVec /\ EndedNormally /\ AllKeyed) =>
        /\ result.v = ResultOf(BindRuns(RunEnd, 1, NoRuns))
        /\ result.v.ok =>
             Len(result.v.v) = Cardinality({i \in 1..Len(Pushes) : ~ContinuesRun(i)})

\* [0].v=1, [1].v=2, [0].w=1 bind to three maps, the last one {w: 1}.
C7_Witness ==
    /\ EndedNormally /\ ty = T_vec(T_map(T_leaf("str"), T_leaf("u8")))
    /\ Len(Pushes) = 3
    /\ PushKey(Pushes[1]) = Some(<<"0">>)
    /\ PushKey(Pushes[2]) = Some(<<"1">>)
    /\ PushKey(Pushes[3]) = Some(<<"0">>)
    /\ result.v.ok /\ Len(result.v.v) = 3
    /\ DOMAIN result.v.v[1] = {<<"v">>}
    /\ DOMAIN result.v.v[3] = {<<"w">>}

(***************************************************************************)
(* C8.  As claimed: consecutive pushes without a key share one running     *)
(* sub-context, so that an attempt of key-less pushes only binds what its  *)
(* pushes bind as one run, into one element.                               *)
(***************************************************************************)
\* All pushes of an attempt taken as one run: the run ends at the last push.
LastPush(i) == Len(Pushes)

C8_KeylessShareOne ==
    (IsVec /\ EndedNormally /\ Len(Pushes) >= 1 /\ AllKeyless) =>
        result.v = ResultOf(BindRuns(LastPush, 1, NoRuns))

(***************************************************************************)
(* C8, amended.  A push without a key never joins the running sub-context: *)
(* it finalizes the current element and opens a fresh one, as a push with  *)
(* a new key does, so n consecutive key-less pushes open n elements.       *)
(***************************************************************************)
C8_KeylessOpensNew ==
    (IsVec /\ EndedNormally /\ SomeKeyless) =>
        /\ result.v = ResultOf(BindRuns(RunEnd, 1, NoRuns))
        /\ \A i \in 1..Len(Pushes) : ~PushKey(Pushes[i]).some => RunEnd(i) = i
        /\ (/\ AllKeyless /\ ty.e = T_leaf("str") /\ ~options.strict
            /\ \A i \in 1..Len(Pushes) : Pushes[i].op = "push_value") =>
             result.v = Ok([i \in 1..Len(Pushes) |-> Pushes[i].field.value])

\* Two key-less values bind to two elements.
C8_Witness ==
    /\ EndedNormally /\ ty = T_vec(T_leaf("str"))
    /\ Len(Pushes) = 2
    /\ Pushes[1].op = "push_value" /\ NameView_source(Pushes[1].field.name) = <<>>
    /\ Pushes[2].op = "push_value" /\ NameView_source(Pushes[2].field.name) = <<>>
    /\ result.v = Ok(<<Pushes[1].field.value, Pushes[2].field.value>>)

(***************************************************************************)
(* C9.  The elements of the bound sequence are in the order in which their *)
(* sub-contexts were opened, whatever the keys are: a lenient Vec<&str>    *)
(* given values binds to the first value of each run, in arrival order, so *)
(* [1]=b and then [0]=a binds to [b, a].                                   *)
(***************************************************************************)
RECURSIVE FirstValues(_)
FirstValues(i) ==
    IF i > Len(Pushes) THEN <<>>
    ELSE (IF ContinuesRun(i) THEN <<>> ELSE <<Pushes[i].field.value>>) \o FirstValues(i + 1)

C9_ArrivalOrder ==
    (/\ EndedNormally /\ ty = T_vec(T_leaf("str")) /\ ~options.strict
     /\ \A i \in 1..Len(Pushes) : Pushes[i].op = "push_value") =>
        result.v = Ok(FirstValues(1))

\* [1]=b and then [0]=a bind to [b, a].
C9_Witness ==
    /\ EndedNormally /\ ty = T_vec(T_leaf("str")) /\ ~options.strict
    /\ Len(Pushes) = 2
    /\ Pushes[1].op = "push_value" /\ PushKey(Pushes[1]) = Some(<<"1">>)
    /\ Pushes[1].field.value = <<"b">>
    /\ Pushes[2].op = "push_value" /\ PushKey(Pushes[2]) = Some(<<"0">>)
    /\ Pushes[2].field.value = <<"a">>
    /\ result.v = Ok(<<<<"b">>, <<"a">>>>)

(***************************************************************************)
(* What the properties of maps read off a state.                           *)
(***************************************************************************)
IsMap == ty.k = "map"

\* The indices of a pushed field's key: <<key>>, or <<"k" or "v", entry>>.
PushIndices(c) == index_pair(PushKey(c))

IsImplicit(c) == Len(PushIndices(c)) = 1

IsSide(c, side) == Len(PushIndices(c)) = 2 /\ PushIndices(c)[1] = side

\* The (key, value) pairs that the pushed fields spell out.
SpelledPairs ==
    {<<PushIndices(Pushes[i])[1], ParseU8(Pushes[i].field.value).v>> :
        i \in {j \in 1..Len(Pushes) : IsImplicit(Pushes[j])}}
    \cup
    {<<Pushes[p[1]].field.value, ParseU8(Pushes[p[2]].field.value).v>> :
        p \in {q \in (1..Len(Pushes)) \X (1..Len(Pushes)) :
                 /\ IsSide(Pushes[q[1]], <<"k">>) /\ IsSide(Pushes[q[2]], <<"v">>)
                 /\ PushIndices(Pushes[q[1]])[2] = PushIndices(Pushes[q[2]])[2]}}

\* Every field is a value and is pushed once, every explicit entry has its
\* key and its value, every value is a u8, and no key is spelled twice.
SpellsMap ==
    /\ \A i \in 1..Len(Pushes) :
          /\ Pushes[i].op = "push_value"
          /\ IsImplicit(Pushes[i]) \/ IsSide(Pushes[i], <<"k">>) \/ IsSide(Pushes[i], <<"v">>)
          /\ ~IsSide(Pushes[i], <<"k">>) => ParseU8(Pushes[i].field.value).ok
          /\ \A j \in 1..Len(Pushes) :
                PushIndices(Pushes[i]) = PushIndices(Pushes[j]) => i = j
          /\ ~IsImplicit(Pushes[i]) =>
                \E j \in 1..Len(Pushes) :
                    /\ ~IsImplicit(Pushes[j])
                    /\ PushIndices(Pushes[j])[1] # PushIndices(Pushes[i])[1]
                    /\ PushIndices(Pushes[j])[2] = PushIndices(Pushes[i])[2]
    /\ \A p, q \in SpelledPairs : p[1] = q[1] => p = q

(***************************************************************************)
(* C10.  Map entry encoding: value fields that spell out entries, [key]    *)
(* for an entry with an implicit key and [k:e], [v:e] for the key and the  *)
(* value of entry e, bind to the map of these entries, in any arrival      *)
(* order: [a]=1, [b]=2 bind to {a: 1, b: 2} and [k:0]=a, [v:0]=1 to        *)
(* {a: 1}.                                                                 *)
(***************************************************************************)
C10_MapEntryEncoding ==
    (ty = T_map(T_leaf("str"), T_leaf("u8")) /\ EndedNormally /\ SpellsMap) =>
        result.v = Ok([key \in {p[1] : p \in SpelledPairs} |->
                          (CHOOSE p \in SpelledPairs : p[1] = key)[2]])

\* [a]=1 and [b]=2 bind to {a: 1, b: 2}.
C10_Witness ==
    /\ EndedNormally /\ IsMap /\ Len(Pushes) = 2
    /\ Pushes[1].op = "push_value" /\ PushIndices(Pushes[1]) = <<<<"a">>>>
    /\ Pushes[1].field.value = <<"1">>
    /\ Pushes[2].op = "push_value" /\ PushIndices(Pushes[2]) = <<<<"b">>>>
    /\ Pushes[2].field.value = <<"2">>
    /\ result.v = Ok((<<"a">> :> 1) @@ (<<"b">> :> 2))

\* [v:0]=1 and then [k:0]=a bind to {a: 1}.
C10_WitnessExplicit ==
    /\ EndedNormally /\ IsMap /\ Len(Pushes) = 2
    /\ IsSide(Pushes[1], <<"v">>) /\ Pushes[1].field.value = <<"1">>
    /\ IsSide(Pushes[2], <<"k">>) /\ Pushes[2].field.value = <<"a">>
    /\ SpellsMap
    /\ result.v = Ok(<<"a">> :> 1)

(***************************************************************************)
(* What the properties of map finalize read off a step.                    *)
(***************************************************************************)
\* The step in which parse_form finalizes the context at the end of the fields.
FinalizeStep == pc = "loop" /\ pc' = "done" /\ EndedNormally'

\* The error e is reported among errors, under some field name.
Reported(e, errors) ==
    \E i \in 1..Len(errors) :
        errors[i].kind = e.kind /\ errors[i].value = e.value /\ errors[i].name.some

\* Every error of a child context c of type T that fails to finalize is
\* reported among errors.
ChildReported(T, c, errors) ==
    ~FF_finalize(T, c).ok =>
        \A i \in 1..Len(FF_finalize(T, c).e) : Reported(FF_finalize(T, c).e[i], errors)

(***************************************************************************)
(* C11.  Map finalize reports every individual failure: when the map is    *)
(* finalized, the errors of every key context and of every value context   *)
(* that fails to finalize are in the errors the map returns.               *)
(***************************************************************************)
C11_EveryFailureReported ==
    [][(FinalizeStep /\ IsMap) =>
          /\ \A j \in 1..Len(context.v.keys) :
                ChildReported(ty.key, context.v.keys[j],
                              IF result'.v.ok THEN <<>> ELSE result'.v.e)
          /\ \A j \in 1..Len(context.v.values) :
                ChildReported(ty.val, context.v.values[j],
                              IF result'.v.ok THEN <<>> ELSE result'.v.e)]_vars

(***************************************************************************)
(* What the properties of malformed map entries read off a step.           *)
(***************************************************************************)
\* The step in which parse_form pushes a field; the field is LastCall'.field.
PushStep == pc = "loop" /\ pc' = "loop" /\ Len(calls') = Len(calls) + 1

LastCall == calls[Len(calls)]

\* The key has a marker that is neither k... nor v..., whatever the case.
BadMarker(c) ==
    /\ Len(PushIndices(c)) >= 2
    /\ \/ Len(PushIndices(c)[1]) = 0
       \/ PushIndices(c)[1][1] \notin {"k", "K", "v", "V"}

NoKey(c) == ~PushKey(c).some

Malformed(c) == BadMarker(c) \/ NoKey(c)

NumMalformed == Cardinality({i \in 1..Len(Pushes) : Malformed(Pushes[i])})

NumNamed(errors, kinds) ==
    Cardinality({i \in 1..Len(errors) : errors[i].kind \in kinds /\ errors[i].name.some})

(***************************************************************************)
(* C12.  Map adapter, malformed entry: a push whose key has a marker that  *)
(* starts with neither k nor v in any case, or that has no key, adds       *)
(* exactly one error named after the field, creates no entry and reaches   *)
(* no child context; any other push adds no error to the map's own.  A     *)
(* map that got such a push fails at finalize, with that error.            *)
(***************************************************************************)
C12_MalformedEntry ==
    [][/\ (PushStep /\ IsMap) =>
            IF Malformed(LastCall')
            THEN /\ context'.v.keys = context.v.keys
                 /\ context'.v.values = context.v.values
                 /\ context'.v.key_map = context.v.key_map
                 /\ Len(context'.v.errors) = Len(context.v.errors) + 1
                 /\ SubSeq(context'.v.errors, 1, Len(context.v.errors)) = context.v.errors
                 /\ context'.v.errors[Len(context'.v.errors)].name
                      = Some(NameView_as_name(LastCall'.field.name))
                 /\ context'.v.errors[Len(context'.v.errors)].kind
                      = (IF NoKey(LastCall') THEN "Missing" ELSE "InvalidChoice")
            ELSE context'.v.errors = context.v.errors
       /\ (FinalizeStep /\ IsMap /\ NumMalformed > 0) =>
            /\ ~result'.v.ok
            /\ \A i \in 1..Len(context.v.errors) : result'.v.e[i] = context.v.errors[i]
            /\ Len(context.v.errors) = NumMalformed]_vars

\* A map given a field [x:0] and then a field without a key fails with an
\* InvalidChoice error named [x:0] and a Missing error.
C12_Witness ==
    /\ EndedNormally /\ IsMap /\ Len(Pushes) = 2
    /\ BadMarker(Pushes[1]) /\ NoKey(Pushes[2])
    /\ ~result.v.ok /\ Len(result.v.e) = 2
    /\ result.v.e[1].kind = "InvalidChoice"
    /\ result.v.e[1].name = Some(<<"[", "x", ":", "0", "]">>)
    /\ result.v.e[2].kind = "Missing"

(***************************************************************************)
(* What the properties of pairs read off a step.                           *)
(***************************************************************************)
IsPair == ty.k = "pair"

\* The current segment of a pushed field, without its delimiters.
Segment(c) == NameView_key_lossy(c.field.name)

\* What a child context c of type T becomes when it is pushed the field of
\* the call p, shifted.
PushedShifted(T, c, p) ==
    IF p.op = "push_value"
    THEN FF_push_value(T, c, Field_shift(p.field))
    ELSE FF_push_data(T, c, Field_shift(p.field))

(***************************************************************************)
(* C13.  Pair adapter routing: a push whose current segment is 0 goes,     *)
(* shifted, to the left context only; one whose segment is 1 goes,         *)
(* shifted, to the right context only; any other segment is pushed as a    *)
(* value-only field to the left context and the field goes, shifted, to    *)
(* the right context.                                                      *)
(***************************************************************************)
C13_PairRouting ==
    [][(PushStep /\ IsPair) =>
          /\ context'.v.errors = context.v.errors
          /\ Segment(LastCall') = <<"0">> =>
                /\ context'.v.left = PushedShifted(ty.a, context.v.left, LastCall')
                /\ context'.v.right = context.v.right
          /\ Segment(LastCall') = <<"1">> =>
                /\ context'.v.left = context.v.left
                /\ context'.v.right = PushedShifted(ty.b, context.v.right, LastCall')
          /\ Segment(LastCall') \notin {<<"0">>, <<"1">>} =>
                /\ context'.v.left =
                     FF_push_value(ty.a, context.v.left,
                                   ValueField_from_value(Segment(LastCall')))
                /\ context'.v.right = PushedShifted(ty.b, context.v.right, LastCall')]_vars

\* (&str, u8) given a=1 is bound to (a, 1).
C13_Witness ==
    /\ EndedNormally /\ ty = T_pair(T_leaf("str"), T_leaf("u8"))
    /\ Len(Pushes) = 1 /\ Pushes[1].op = "push_value"
    /\ Segment(Pushes[1]) = <<"a">> /\ Pushes[1].field.value = <<"1">>
    /\ result.v = Ok([a |-> <<"a">>, b |-> 1])

(***************************************************************************)
(* What the properties of the wrappers read off a step.                    *)
(***************************************************************************)
\* The step in which parse_form finalizes the context, on any exit.
ReturnStep == pc = "loop" /\ pc' = "done"

\* What the wrapped type's finalize answers on the context being finalized.
Inner == FF_finalize(ty.e, context.v)

(***************************************************************************)
(* C14.  Option<T>: finalize always succeeds, whatever was pushed and      *)
(* whatever the options: with Some(v) when T finalizes to v, with None     *)
(* when T fails.  The errors of T are in no result: not in the one         *)
(* returned at the end of the fields, and not in the one returned after a  *)
(* transport failure, which holds the transport error alone.               *)
(***************************************************************************)
C14_OptionFinalize ==
    [][(ReturnStep /\ ty.k = "opt") =>
          /\ EndedNormally' =>
                /\ result'.v.ok
                /\ Inner.ok => result'.v.v = Some(Inner.v)
                /\ ~Inner.ok => result'.v.v = None
          /\ ~EndedNormally' => result'.v = Err(<<TransportError>>)]_vars

\* A strict Option<u8> given a=1 and a=2 is bound to None.
C14_Witness ==
    /\ EndedNormally /\ ty = T_opt(T_leaf("u8")) /\ options.strict
    /\ Len(Pushes) = 2
    /\ Succeeds(Pushes[1]) /\ Succeeds(Pushes[2])
    /\ result.v = Ok(None)

(***************************************************************************)
(* C15.  Result<T>: finalize always succeeds, whatever was pushed: with    *)
(* Ok(v) when T finalizes to v, and with Err(e), e being exactly the       *)
(* errors of T, when T fails.                                              *)
(***************************************************************************)
C15_ResultFinalize ==
    [][(ReturnStep /\ ty.k = "res") =>
          /\ EndedNormally' =>
                /\ result'.v.ok
                /\ Inner.ok => result'.v.v = Ok(Inner.v)
                /\ ~Inner.ok => result'.v.v = Err(Inner.e)
          /\ ~EndedNormally' => result'.v = Err(<<TransportError>>)]_vars

\* A Result<Vec<u8>> given [0]=x and [1]=x is bound to Err of two errors.
C15_Witness ==
    /\ EndedNormally /\ ty = T_res(T_vec(T_leaf("u8")))
    /\ Len(Pushes) = 2
    /\ result.v.ok /\ ~result.v.v.ok /\ Len(result.v.v.e) = 2

(***************************************************************************)
(* What the properties of error aggregation read off a state.              *)
(***************************************************************************)
\* The pushes that open an element of the sequence.
RunStarts == {i \in 1..Len(Pushes) : ~ContinuesRun(i)}

\* Those whose element fails to finalize.
FailingRuns == {i \in RunStarts : ~BindRun(i, RunEnd(i)).ok}

\* errors holds the sequence es as a contiguous part.
HoldsAll(errors, es) ==
    \E k \in 0..(Len(errors) - Len(es)) : SubSeq(errors, k + 1, k + Len(es)) = es

ErrorsOf(r) == IF r.ok THEN <<>> ELSE r.e

(***************************************************************************)
(* C16.  Error aggregation: Vec<T> and (A, B) do not stop at the first     *)
(* failing child.  When a sequence is finalized, the errors of every       *)
(* element that fails are in the result, so n failing elements give at     *)
(* least n errors; when a pair is finalized and a side fails, the result   *)
(* holds the pair's own errors, then those of the left side, then those    *)
(* of the right side.                                                      *)
(***************************************************************************)
C16_ErrorAggregation ==
    [][FinalizeStep =>
          /\ (IsVec /\ FailingRuns # {}) =>
                /\ ~result'.v.ok
                /\ Len(result'.v.e) >= Cardinality(FailingRuns)
                /\ \A i \in FailingRuns :
                      HoldsAll(result'.v.e, BindRun(i, RunEnd(i)).e)
          /\ (/\ IsPair
              /\ ~FF_finalize(ty.a, context.v.left).ok
                   \/ ~FF_finalize(ty.b, context.v.right).ok) =>
                result'.v = Err(context.v.errors
                                  \o ErrorsOf(FF_finalize(ty.a, context.v.left))
                                  \o ErrorsOf(FF_finalize(ty.b, context.v.right)))]_vars

\* A Vec<u8> given [0]=x, [1]=x and [0]=x fails with three errors.
C16_Witness ==
    /\ EndedNormally /\ ty = T_vec(T_leaf("u8")) /\ Len(Pushes) = 3
    /\ Cardinality(FailingRuns) = 3
    /\ \A i \in 1..3 : Pushes[i].op = "push_value" /\ Pushes[i].field.value = <<"x">>
    /\ ~result.v.ok /\ Len(result.v.e) = 3

\* A (u8, u8) given a=a fails with the errors of both sides.
C16_WitnessPair ==
    /\ EndedNormally /\ ty = T_pair(T_leaf("u8"), T_leaf("u8")) /\ Len(Pushes) = 1
    /\ Segment(Pushes[1]) = <<"a">> /\ Pushes[1].op = "push_value"
    /\ Pushes[1].field.value = <<"a">>
    /\ ~result.v.ok /\ Len(result.v.e) = 2

(***************************************************************************)
(* What the properties of arrival order read off a state.                  *)
(***************************************************************************)
\* The arrival orders of the fields pushed: permutations of their indices.
Orders ==
    {q \in [1..Len(Pushes) -> 1..Len(Pushes)] :
        \A i, j \in 1..Len(Pushes) : q[i] = q[j] => i = j}

\* The top-level context after the pushed fields arrived in the order q,
\* from its i-th field on.
RECURSIVE PushAll(_, _, _)
PushAll(c, q, i) ==
    IF i > Len(Pushes) THEN c
    ELSE PushAll(IF Pushes[q[i]].op = "push_value"
                 THEN FF_push_value(ty, c, Pushes[q[i]].field)
                 ELSE FF_push_data(ty, c, Pushes[q[i]].field),
                 q, i + 1)

\* What the fields bind to when they arrive in the order q.
Rebind(q) == FF_finalize(ty, PushAll(FF_init(ty, options), q, 1))

\* The leaf contexts of a map that a pushed field reaches: the key and the
\* value of its entry for an implicit key, one of them for a marker.
Touches(c) ==
    IF Malformed(c) THEN {}
    ELSE IF IsImplicit(c)
    THEN {<<PushIndices(c)[1], "key">>, <<PushIndices(c)[1], "value">>}
    ELSE IF Lower(PushIndices(c)[1][1]) = "k"
    THEN {<<PushIndices(c)[2], "key">>}
    ELSE {<<PushIndices(c)[2], "value">>}

\* No leaf receives more than one field, in whatever order the fields
\* arrive.
NoLeafTwice ==
    CASE IsLeaf -> Len(Pushes) <= 1
      [] Unwrapped(ty).k = "pair" ->
           \/ Len(Pushes) <= 1
           \/ \A i, j \in 1..Len(Pushes) :
                 /\ Segment(Pushes[i]) \in {<<"0">>, <<"1">>}
                 /\ Segment(Pushes[i]) = Segment(Pushes[j]) => i = j
      [] Unwrapped(ty).k = "vec" ->
           /\ Unwrapped(ty).e.k = "leaf" /\ AllKeyed
           /\ \A i, j \in 1..Len(Pushes) : PushKey(Pushes[i]) = PushKey(Pushes[j]) => i = j
      [] Unwrapped(ty).k = "map" ->
           /\ ty.key.k = "leaf" /\ ty.val.k = "leaf"
           /\ \A i, j \in 1..Len(Pushes) :
                 Touches(Pushes[i]) \cap Touches(Pushes[j]) # {} => i = j
      [] OTHER -> FALSE

EntriesTouched == {t[1] : t \in UNION {Touches(Pushes[i]) : i \in 1..Len(Pushes)}}

IsRecord == Unwrapped(ty).k = "record"

\* The fields pushed are exactly a=1 and b=2, as values, in either order.
GivenAAndB ==
    /\ Len(Pushes) = 2
    /\ \A i \in 1..2 : Pushes[i].op = "push_value"
    /\ \E i, j \in 1..2 :
          /\ Segment(Pushes[i]) = <<"a">> /\ Pushes[i].field.value = <<"1">>
          /\ Segment(Pushes[j]) = <<"b">> /\ Pushes[j].field.value = <<"2">>

C18_WitnessLenient ==
    /\ EndedNormally /\ ty = RecordA /\ ~options.strict /\ GivenAAndB
    /\ result.v = Ok(<<"a">> :> 1)

(***************************************************************************)
(* What the properties of nested strictness read off a state.              *)
(***************************************************************************)
\* The leaf contexts in the context c of type T, each with its leaf type:
\* a sequence of [t, c].
RECURSIVE LeafContexts(_, _)
RECURSIVE LeafContextsOf(_, _, _)
LeafContextsOf(T, cs, i) ==
    IF i > Len(cs) THEN <<>>
    ELSE LeafContexts(T, cs[i]) \o LeafContextsOf(T, cs, i + 1)

LeafContexts(T, c) ==
    CASE T.k = "leaf" -> <<[t |-> T.t, c |-> c]>>
      [] T.k = "vec" -> IF c.current.some THEN LeafContexts(T.e, c.current.v) ELSE <<>>
      [] T.k = "map" -> LeafContextsOf(T.key, c.keys, 1) \o LeafContextsOf(T.val, c.values, 1)
      [] T.k = "pair" -> LeafContexts(T.a, c.left) \o LeafContexts(T.b, c.right)
      [] T.k = "record" -> LeafContexts(T.fields[1].ty, c.fields[1])
      [] OTHER -> LeafContexts(T.e, c)

\* The leaf context holds a value and was pushed to more than once.
PushedTwice(l) == l.c.value.some /\ l.c.value.v.ok /\ l.c.pushes >= 2

HasKind(r, kind) == ~r.ok /\ \E i \in 1..Len(r.e) : r.e[i].kind = kind

(***************************************************************************)
(* C19.  Strictness composes through nesting: under Strict<T>, whatever    *)
(* the options given, every leaf context beneath the sequence, map, pair,  *)
(* optional and fallible adapters is strict, those of sub-contexts opened  *)
(* by later pushes included, so a nested leaf that holds a value and was   *)
(* pushed to twice fails to finalize, with Duplicate; a sequence or a pair *)
(* of such leaves then fails with Duplicate too.                           *)
(***************************************************************************)
C19_StrictnessNests ==
    (ty.k = "strict" /\ pc = "loop") =>
        /\ \A i \in 1..Len(LeafContexts(ty, context.v)) :
              /\ LeafContexts(ty, context.v)[i].c.opts.strict
              /\ PushedTwice(LeafContexts(ty, context.v)[i]) =>
                    /\ HasKind(Leaf_finalize(LeafContexts(ty, context.v)[i].t,
                                              LeafContexts(ty, context.v)[i].c),
                                "Duplicate")
                    /\ Len(Leaf_finalize(LeafContexts(ty, context.v)[i].t,
                                          LeafContexts(ty, context.v)[i].c).e) = 1
        /\ (/\ ty.e.k \in {"vec", "pair"}
            /\ \E i \in 1..Len(LeafContexts(ty, context.v)) :
                  PushedTwice(LeafContexts(ty, context.v)[i])) =>
              HasKind(FF_finalize(ty, context.v), "Duplicate")

\* Strict<Vec<u8>> under lenient options: the element opened by the second
\* key was given two values, and the sequence fails with Duplicate.
C19_Witness ==
    /\ EndedNormally /\ ty = T_strict(T_vec(T_leaf("u8"))) /\ ~options.strict
    /\ Len(Pushes) = 3
    /\ PushKey(Pushes[1]) = Some(<<"0">>)
    /\ PushKey(Pushes[2]) = Some(<<"1">>)
    /\ PushKey(Pushes[3]) = Some(<<"1">>)
    /\ \A i \in 1..3 : Pushes[i].op = "push_value" /\ Pushes[i].field.value = <<"1">>
    /\ HasKind(result.v, "Duplicate")

(***************************************************************************)
(* What the properties of NameView read off a step.                        *)
(***************************************************************************)
\* The view before a shift: the one NameView::new starts from, or the
\* cursor.
ViewBefore == IF cursor.some THEN cursor.v ELSE [name |-> path, start |-> 0, end |-> 0]

\* The part of the name that the view has not consumed.
Suffix == SubSeq(path, ViewBefore.end + 1, Len(path))

\* The positions from the from-th on at which s has one of the characters cs.
Positions(s, cs, from) == {j \in from..Len(s) : s[j] \in cs}

Earliest(S) == CHOOSE j \in S : \A k \in S : j <= k

\* The number of characters of s that the grammar of field names gives to
\* its first segment.
SegmentLen(s) ==
    IF s = <<>> THEN 0
    ELSE IF s[1] = "=" THEN 0
    ELSE IF s[1] = "["
    THEN IF Positions(s, {"]", "."}, 2) = {} THEN Len(s)
         ELSE IF s[Earliest(Positions(s, {"]", "."}, 2))] = "]"
         THEN Earliest(Positions(s, {"]", "."}, 2))
         ELSE Earliest(Positions(s, {"]", "."}, 2)) - 1
    ELSE IF s[1] = "."
    THEN IF Positions(s, {"[", "."}, 2) = {} THEN Len(s)
         ELSE Earliest(Positions(s, {"[", "."}, 2)) - 1
    ELSE IF Positions(s, {"[", "."}, 1) = {} THEN Len(s)
         ELSE Earliest(Positions(s, {"[", "."}, 1)) - 1

(***************************************************************************)
(* C20.  NameView::shift consumes, from the remaining suffix, exactly the  *)
(* characters that the grammar gives: none if the suffix is empty or       *)
(* begins with '='; after '[', through the first ']' if it comes before    *)
(* any '.', up to the first '.' if that comes first, else the rest; after  *)
(* '.', up to the next '[' or '.' from offset 1, else the rest; otherwise  *)
(* up to the next '[' or '.', else the rest.  The new view starts where    *)
(* the old one ended.                                                      *)
(***************************************************************************)
C20_ShiftGrammar ==
    [][cursor' # cursor =>
          /\ cursor'.v.name = path
          /\ cursor'.v.start = ViewBefore.end
          /\ cursor'.v.end = ViewBefore.end + SegmentLen(Suffix)]_vars

\* The name [a.a] walked to its end: the unterminated bracket [a stops
\* before the dot, and .a] takes the rest.
C20_Witness ==
    /\ path = <<"[", "a", ".", "a">>
    /\ cursor = Some([name |-> path, start |-> 2, end |-> 4])

(***************************************************************************)
(* C21.  After NameView::new and after any number of shifts,               *)
(* start <= end <= len(name), so the debug assertion of shift holds; and   *)
(* from one shift to the next neither start nor end decreases.             *)
(***************************************************************************)
C21_ViewInvariant ==
    /\ [](cursor.some =>
            /\ cursor.v.start <= cursor.v.end
            /\ cursor.v.end <= Len(cursor.v.name))
    /\ [][cursor.some /\ cursor' # cursor =>
            /\ cursor.v.start <= cursor'.v.start
            /\ cursor.v.end <= cursor'.v.end]_vars

\* The name a.a after its second shift: the view has moved from a to .a
\* and reached the end of the name.
C21_Witness ==
    /\ path = <<"a", ".", "a">>
    /\ cursor = Some([name |-> path, start |-> 1, end |-> 3])

(***************************************************************************)
(* C22.  For every name, shifting a fresh cursor again and again reaches   *)
(* start = len(name) after finitely many shifts, so that Name::keys and    *)
(* Name::prefixes end; also when '=' follows a segment or starts the name. *)
(***************************************************************************)
C22_SegmentationTerminates ==
    <>(cursor.some /\ NameView_is_terminal(cursor.v))

\* The current segment of the view: the characters from start up to end.
CurrentSegment == SubSeq(path, cursor.v.start + 1, cursor.v.end)

\* The segment s without its leading dot, or without its wrapping brackets,
\* or as it is.
Stripped(s) ==
    IF s # <<>> /\ Head(s) = "." THEN Tail(s)
    ELSE IF s # <<>> /\ Head(s) = "[" /\ s[Len(s)] = "]" THEN SubSeq(s, 2, Len(s) - 1)
    ELSE s

(***************************************************************************)
(* C23.  key_lossy returns the current segment with a single leading '.'   *)
(* removed, or with a single wrapping '[' ... ']' removed (only when the   *)
(* segment starts with '[' and ends with ']'), and otherwise the segment   *)
(* unchanged, possibly empty; key returns None exactly when key_lossy is   *)
(* empty and Some(key_lossy) otherwise.                                    *)
(***************************************************************************)
C23_KeyLossy ==
    cursor.some =>
        /\ NameView_key_lossy(cursor.v) = Stripped(CurrentSegment)
        /\ NameView_key(cursor.v).some = (NameView_key_lossy(cursor.v) # <<>>)
        /\ NameView_key(cursor.v).some =>
               NameView_key(cursor.v).v = NameView_key_lossy(cursor.v)

\* The name [a.a] at its first segment [a: the bracket is not closed, the
\* segment is its own key.
C23_Witness ==
    /\ path = <<"[", "a", ".", "a">>
    /\ cursor = Some([name |-> path, start |-> 0, end |-> 2])
    /\ NameView_key_lossy(cursor.v) = <<"[", "a">>

\* The name [a] at its only segment: the key is a.
C23_WitnessWrapped ==
    /\ path = <<"[", "a", "]">>
    /\ cursor = Some([name |-> path, start |-> 0, end |-> 3])
    /\ NameView_key(cursor.v) = Some(<<"a">>)

\* Whether two iterators yield the same items.
SameItems(a, b) ==
    /\ a.ends = b.ends
    /\ IF a.ends THEN a.items = b.items
       ELSE \A i \in 1..(Len(a.items) + Len(b.items)) : Iter_at(a, i) = Iter_at(b, i)

(***************************************************************************)
(* C24.  Two Names are equal if and only if their keys() sequences are     *)
(* equal (so [a] equals .a although the raw text differs), and two equal   *)
(* Names write the same to a hasher.                                       *)
(***************************************************************************)
C24_EqualityOverKeys ==
    (ret.some /\ ret.v.fn = "eq") =>
        /\ ret.v.out.returns
        /\ ret.v.out.value = SameItems(Name_keys(path), Name_keys(ret.v.other))
        /\ ret.v.out.value =>
               /\ Name_hash(path).returns
               /\ Name_hash(ret.v.other).returns
               /\ Name_hash(path).written = Name_hash(ret.v.other).written

(***************************************************************************)
(* C25.  Segmentation is idempotent: for every field path p, the keys of   *)
(* the last element of p.prefixes() are the same sequence as the keys of   *)
(* p itself.                                                               *)
(***************************************************************************)
C25_SegmentationIdempotent ==
    (ret.some /\ ret.v.fn = "prefixes_last") =>
        /\ ret.v.out.returns
        /\ ret.v.out.value.some =>
               SameItems(Name_keys(ret.v.out.value.v), Name_keys(path))
        /\ ~ret.v.out.value.some => Name_keys(path).items = <<>>

\* The errors that the context holds under a name.
Filed == Context_all_filed(form_context.v.errors)

\* Whether the name of the error e is equal to one of the prefixes of the
\* queried name.
OnPrefixChain(e) ==
    \E i \in 1..Len(Name_prefixes(path).items) :
        Name_equivalent(Name_prefixes(path).items[i], e.name.v)

\* The error of kind Missing attached to a.b.
MissingAtAB ==
    [kind |-> "Missing", value |-> None,
     name |-> Some([left |-> <<"a", ".", "b">>, right |-> <<>>])]

(***************************************************************************)
(* C26.  Context::errors(q) returns exactly the errors attached to a Name  *)
(* equal to one of q's prefixes, each of them once when the prefixes end:  *)
(* an error attached to a.b is returned for the queries a.b, a.b.c and     *)
(* a.b[0] (and a[b]) but not for the query a.  has_error(q) is true if     *)
(* and only if that set is not empty.                                      *)
(***************************************************************************)
C26_PrefixLookup ==
    /\ (ret.some /\ ret.v.fn = "errors") =>
          /\ {ret.v.out.items[i] : i \in 1..Len(ret.v.out.items)}
                 = {Filed[j] : j \in {k \in 1..Len(Filed) : OnPrefixChain(Filed[k])}}
          /\ ret.v.out.ends =>
                 Len(ret.v.out.items)
                     = Cardinality({k \in 1..Len(Filed) : OnPrefixChain(Filed[k])})
          /\ (\E j \in 1..Len(Filed) : Filed[j] = MissingAtAB) =>
                 /\ path \in {<<"a", ".", "b">>, <<"a", ".", "b", ".", "c">>,
                              <<"a", ".", "b", "[", "0", "]">>, <<"a", "[", "b", "]">>}
                        => \E i \in 1..Len(ret.v.out.items) : ret.v.out.items[i] = MissingAtAB
                 /\ path = <<"a">>
                        => \A i \in 1..Len(ret.v.out.items) : ret.v.out.items[i] # MissingAtAB
    /\ (ret.some /\ ret.v.fn = "has_error") =>
          ((ret.v.out.returns /\ ret.v.out.value)
              <=> \E k \in 1..Len(Filed) : OnPrefixChain(Filed[k]))

\* The query a.b[0] on a context that holds an error attached to a.b and
\* one attached to b: the first is returned, the second is not.
C26_Witness ==
    /\ path = <<"a", ".", "b", "[", "0", "]">>
    /\ \E j \in 1..Len(Filed) : Filed[j] = MissingAtAB
    /\ \E j \in 1..Len(Filed) : Filed[j].name.v.left = <<"b">>
    /\ ret.some /\ ret.v.fn = "errors"
    /\ ret.v.out.items = <<MissingAtAB>>

\* Whether the content type of the request is one that Form reads.
FormContentType == request.v.content_type \in {"form", "form-data"}

(***************************************************************************)
(* C27.  The Form data guard returns Forward, handing back the unread      *)
(* data, if and only if the request's content type is neither url-encoded  *)
(* form nor multipart form-data (or is absent); for a matching content     *)
(* type the outcome is always Success or Failure, and a multipart request  *)
(* without a boundary parameter is a Failure, not a Forward.               *)
(***************************************************************************)
C27_ForwardOrFailure ==
    request.some =>
        /\ (pc = "done") = outcome.some
        /\ outcome.some =>
              /\ (outcome.v.kind = "Forward") = ~FormContentType
              /\ outcome.v.kind = "Forward" =>
                    /\ outcome.v.data = request.v.data
                    /\ storage = "None" /\ context = None /\ calls = <<>>
              /\ FormContentType => outcome.v.kind \in {"Success", "Failure"}
              /\ (request.v.content_type = "form-data" /\ ~request.v.boundary) =>
                    outcome.v.kind = "Failure"

\* A multipart request without a boundary has failed.
C27_Witness ==
    /\ request.some
    /\ request.v.content_type = "form-data" /\ ~request.v.boundary
    /\ outcome.some /\ outcome.v.kind = "Failure"

\* A request of another content type was forwarded.
C27_WitnessForward ==
    /\ request.some
    /\ request.v.content_type = "other"
    /\ outcome.some /\ outcome.v.kind = "Forward"

\* The request is url-encoded and its body is longer than the limit: the
\* read succeeds and is truncated.
Truncated ==
    /\ request.some
    /\ request.v.content_type = "form"
    /\ request.v.readable /\ ~request.v.complete

(***************************************************************************)
(* C28.  When the url-encoded body is longer than the configured limit,    *)
(* the bind attempt fails with a too-large error before any context is     *)
(* initialised and without any field being pushed; no partially bound      *)
(* value is ever returned from a truncated body.                           *)
(***************************************************************************)
C28_TruncatedBodyFails ==
    Truncated =>
        /\ context = None /\ calls = <<>> /\ result = None
        /\ pc \in {"guard", "done"}
        /\ pc = "done" =>
              /\ outcome.some
              /\ outcome.v.kind = "Failure"
              /\ outcome.v.error = Errors_from("TooLarge")

\* A truncated url-encoded body has been refused.
C28_Witness ==
    /\ Truncated
    /\ pc = "done"
    /\ outcome = Some(Outcome_Failure(Errors_from("TooLarge")))

\* The step on which the transport fails: mp.next_field() or field.text()
\* returns an error.
TransportStep == MpNextFieldErr \/ MpTextErr

\* What T::finalize makes of the context collected so far.
Collected == FF_finalize(ty, context.v)

(***************************************************************************)
(* C29.  When fetching the next multipart field or reading a text field's  *)
(* body fails, no further field is pushed, the context collected so far is *)
(* finalized, and the bind attempt fails with an error set whose last      *)
(* element is the transport error, preceded by the context's own errors    *)
(* if its finalize failed; the attempt never succeeds after a transport    *)
(* error, and nothing happens after it.                                    *)
(***************************************************************************)
C29_TransportFailure ==
    [][/\ pc # "done"
       /\ TransportStep =>
             /\ calls' = Append(calls, [op |-> "finalize"])
             /\ context' = None
             /\ pc' = "done"
             /\ result'.some /\ ~result'.v.ok
             /\ result'.v.e =
                    (IF Collected.ok THEN <<>> ELSE Collected.e) \o <<TransportError>>]_vars

\* A sequence that held one element that does not parse when the transport
\* failed: the element's error comes first, the transport's error last.
C29_Witness ==
    /\ ty = T_vec(T_leaf("u8"))
    /\ storage = "MultiPart"
    /\ pc = "done"
    /\ Len(calls) = 3
    /\ ~result.v.ok
    /\ Len(result.v.e) = 2
    /\ result.v.e[1].kind # "Multipart"
    /\ result.v.e[2] = TransportError

\* The i-th call pushed a data field that was sent with a file name.
SentWithFileName(i) ==
    /\ calls[i].op = "push_data"
    /\ \E k \in 1..Len(calls[i].field.data) : calls[i].field.data[k] = "; filename="

\* The file name that the field of the i-th call was sent with.
FileNameSent(i) ==
    LET data == calls[i].field.data
        k == CHOOSE j \in 1..Len(data) : data[j] = "; filename="
    IN  SubSeq(data, k + 1, Len(data))

\* The name is empty, starts with '.' or '*', ends with ':', '>' or '<', or
\* contains a path separator.
Unfit(n) ==
    \/ n = <<>>
    \/ Head(n) \in {".", "*"}
    \/ n[Len(n)] \in {":", ">", "<"}
    \/ \E k \in 1..Len(n) : n[k] \in {"/", "\\"}

\* A data leaf that was given one field, sent with a file name, and no more
\* binds it.
BoundWhateverTheName ==
    (EndedNormally /\ Len(calls) = 3 /\ SentWithFileName(2)) => result.v.ok

(***************************************************************************)
(* C30, as claimed.  A multipart data field whose file name is empty,      *)
(* starts with '.' or '*', ends with ':', '>' or '<', or contains a path   *)
(* separator is pushed with its file name absent; the field itself is      *)
(* still pushed and is not failed because of the name.                     *)
(***************************************************************************)
C30_UnfitNameAbsent ==
    /\ \A i \in 1..Len(calls) :
          (SentWithFileName(i) /\ Unfit(FileNameSent(i))) =>
              calls[i].field.file_name = None
    /\ BoundWhateverTheName

(***************************************************************************)
(* C30, amended.  A multipart data field whose file name has no final path *)
(* component, or whose final path component, cut at its first '.', is      *)
(* empty, starts with '.' or '*', ends with ':', '>' or '<', or contains a *)
(* path separator, is pushed with its file name absent; the field itself   *)
(* is still pushed and is not failed because of the name.                  *)
(***************************************************************************)
C30_UnfitStemAbsent ==
    /\ \A i \in 1..Len(calls) :
          (/\ SentWithFileName(i)
           /\ \/ ~Path_file_name(FileNameSent(i)).some
              \/ Unfit(Before_dot(Path_file_name(FileNameSent(i)).v))) =>
              calls[i].field.file_name = None
    /\ BoundWhateverTheName

\* A data leaf that was given the one field sent as a: (its name ends with
\* a colon) and bound it without a file name.
C30_Witness ==
    /\ ty = T_leaf("data")
    /\ EndedNormally
    /\ Len(calls) = 3
    /\ SentWithFileName(2)
    /\ FileNameSent(2) = <<"a", ":">>
    /\ calls[2].field.file_name = None
    /\ result.v.ok

(***************************************************************************)
(* C31.  A Buffer only grows, and what it gave out stays what it was:      *)
(* every call of push_one, push_split or push_two adds exactly one entry,  *)
(* no step removes or changes an entry, every slice that a call returned   *)
(* still denotes the text it denoted when it was returned, and the slices  *)
(* returned are the string pushed (push_one), the string before and from   *)
(* the given length (push_split), and the two strings given (push_two).    *)
(***************************************************************************)
\* The callers that have pushed and not yet returned.
Pushing == {t \in DOMAIN threads : threads[t].pc \in {"unlock", "return"}}

\* The calls that have returned, as pairs of caller and position.
Returned == {<<t, i>> : t \in DOMAIN threads, i \in 1..MaxPushes} \cap
            {x \in (DOMAIN threads) \X (1..MaxPushes) :
                x[2] <= Len(threads[x[1]].past)}

\* What a call has to return, as text.
Expected(p) ==
    IF p.op = "push_one" THEN <<p.string>>
    ELSE <<Slice(p.string, 0, p.len), Slice(p.string, p.len, Len(p.string))>>

OneEntryPerCall ==
    Len(buffer.strings) = Cardinality(Returned) + Cardinality(Pushing)

SlicesStable ==
    \A x \in Returned :
        LET p == threads[x[1]].past[x[2]]
        IN  \A i \in 1..Len(p.out) : Denotes(buffer, p.out[i]) = p.was[i]

SlicesAsPushed ==
    \A x \in Returned :
        LET p == threads[x[1]].past[x[2]] IN p.was = Expected(p)

EntriesKept ==
    /\ Len(buffer'.strings) >= Len(buffer.strings)
    /\ \A i \in 1..Len(buffer.strings) : buffer'.strings[i] = buffer.strings[i]

C31_AppendOnly ==
    /\ [](OneEntryPerCall /\ SlicesStable /\ SlicesAsPushed)
    /\ [][EntriesKept]_vars

\* Three calls made one after the other, a push_split and a push_two among
\* them, and the slices of the first still denoting what they did.
C31_Witness ==
    /\ DOMAIN threads = {1}
    /\ Len(threads[1].past) = MaxPushes
    /\ \E i, j \in 2..MaxPushes :
         /\ threads[1].past[i].op = "push_split"
         /\ threads[1].past[j].op = "push_two"
         /\ threads[1].past[j].was = <<<<"a">>, <<"b">>>>
    /\ Denotes(buffer, threads[1].past[1].out[1]) = threads[1].past[1].string

(***************************************************************************)
(* C32.  Callers of push_one at the same time exclude each other: at most  *)
(* one caller is between the lock and the unlock, n calls leave exactly n  *)
(* entries, and the slice each caller gets is the string it pushed.        *)
(***************************************************************************)
\* The callers between lock and unlock.
Locked == {t \in DOMAIN threads : threads[t].pc \in {"push", "unlock"}}

OneAtATime ==
    /\ Cardinality(Locked) <= 1
    /\ buffer.mutex <=> Locked # {}

OwnSliceReturned ==
    \A x \in Returned :
        LET p == threads[x[1]].past[x[2]]
        IN  p.op = "push_one" => p.was = <<p.string>>

C32_MutualExclusion == OneAtATime /\ OneEntryPerCall /\ OwnSliceReturned

\* The part of C32 that the code keeps: exclusion, and no push lost.
C32_Exclusion == OneAtATime /\ OneEntryPerCall

(***************************************************************************)
(* C33.  The mutex of push_one is released on every way out of the append, *)
(* a panic in the conversion or in the push included: whenever the mutex   *)
(* is held, some caller is still between its lock and its unlock, so that  *)
(* a later push_one can acquire it.                                        *)
(***************************************************************************)
C33_LockReleased == buffer.mutex => Locked # {}

(***************************************************************************)
(* C34.  A url-encoded body is decoded before it is pushed: each non-empty *)
(* piece between '&'s, cut at its first '=', is pushed as exactly one      *)
(* value field, in the order of the body, whose name and value are the     *)
(* percent-decoded raw name and raw value, whether the decoded text is     *)
(* borrowed from the body or kept in the Buffer.                           *)
(***************************************************************************)
\* The non-empty pieces of a body, in order.
RECURSIVE Pieces(_)
Pieces(s) ==
    LET i == Find(s, {"&"})
        head == IF i = -1 THEN s ELSE Slice(s, 0, i)
        tail == IF i = -1 THEN <<>> ELSE Pieces(Slice(s, i + 1, Len(s)))
    IN  IF head = <<>> THEN tail ELSE <<head>> \o tail

\* The decoded (name, value) of a piece.
Decoded(piece) ==
    LET i == Find(piece, {"="})
        name == IF i = -1 THEN piece ELSE Slice(piece, 0, i)
        val == IF i = -1 THEN <<>> ELSE Slice(piece, i + 1, Len(piece))
    IN  <<Percent_decode(name), Percent_decode(val)>>

\* The (name, value) of the pushes made so far.
Pushed == [i \in 1..Len(Pushes) |->
             <<NameView_source(Pushes[i].field.name), Pushes[i].field.value>>]

C34_DecodedBeforePushed ==
    body.some =>
        LET all == Pieces(request.v)
            n == Len(Pushes)
        IN  /\ n <= Len(all)
            /\ \A i \in 1..n : Pushes[i].op = "push_value"
            /\ Pushed = [i \in 1..n |-> Decoded(all[i])]
            /\ pc = "done" => n = Len(all)

\* The body a=%20b&&%26=b%3d is bound: two fields, the first with its
\* value in the Buffer, the second with its name and value in one entry.
C34_Witness ==
    /\ body.some /\ pc = "done"
    /\ request.v = Join(<<<<"a", "=", "%", "2", "0", "b">>, <<>>,
                          <<"%", "2", "6", "=", "b", "%", "3", "d">>>>)
    /\ Pushed = << <<<<"a">>, <<" ", "b">>>>, <<<<"&">>, <<"b", "=">>>> >>
    /\ buffer.strings = << <<" ", "b">>, <<"&", "b", "=">> >>

(***************************************************************************)
(* C35.  The generic data guards: Option<T> always returns Success, with   *)
(* Some of T's value when T succeeds and None when T fails or forwards;    *)
(* Result<T, T::Error> never returns Failure, returns Success of Ok of T's *)
(* value when T succeeds and of Err of T's error when T fails, and         *)
(* forwards exactly when T forwards.                                       *)
(***************************************************************************)
C35_GenericGuards ==
    ret.some =>
        LET inner == ret.v.inner
            out == ret.v.out
        IN  /\ ret.v.guard = "Option" =>
                 /\ out.kind = "Success"
                 /\ inner.kind = "Success" => out.value = Some(inner.value)
                 /\ inner.kind # "Success" => out.value = None
            /\ ret.v.guard = "Result" =>
                 /\ out.kind # "Failure"
                 /\ inner.kind = "Success" =>
                      out.kind = "Success" /\ out.value = Ok(inner.value)
                 /\ inner.kind = "Failure" =>
                      out.kind = "Success" /\ out.value = Err(inner.error)
                 /\ out.kind = "Forward" <=> inner.kind = "Forward"
                 /\ out.kind = "Forward" => out.data = inner.data

\* Option<Form<T>> of a request that Form<T> forwards.
C35_Witness ==
    /\ ret.some /\ ret.v.guard = "Option"
    /\ ret.v.inner.kind = "Forward" /\ ret.v.out = Outcome_Success(None)

\* Result<Form<T>, Errors> of a form that fails to bind.
C35_WitnessErr ==
    /\ ret.some /\ ret.v.guard = "Result"
    /\ ret.v.inner.kind = "Failure" /\ pc = "done" /\ result.some
    /\ ret.v.out = Outcome_Success(Err(result.v.e))

(***************************************************************************)
(* C36.  A leaf context that holds a result is frozen: every later push    *)
(* changes its push counter and nothing else (the value, the recorded      *)
(* field name and the recorded field value stay), so in lenient mode a     *)
(* first failure other than Unexpected is what finalize reports even when  *)
(* a later push would have parsed.                                         *)
(***************************************************************************)
HoldsResult == context.some /\ context.v.value.some

OnlyCounted == context'.v = [context.v EXCEPT !.pushes = @ + 1]

\* Some push after the first recorded one would have parsed.
LaterPushParses ==
    \E j \in (FirstPush(Recorded) + 1)..Len(Pushes) : PushResult(Pushes[j]).ok

FirstFailureReported ==
    (/\ IsLeaf /\ EndedNormally /\ ~InitialisedStrict
     /\ FirstPush(Recorded) > 0
     /\ FailsOtherwise(Pushes[FirstPush(Recorded)])
     /\ LaterPushParses) =>
        /\ ~result.v.ok
        /\ [i \in 1..Len(result.v.e) |-> result.v.e[i].kind]
             = [i \in 1..Len(PushResult(Pushes[FirstPush(Recorded)]).e) |->
                  PushResult(Pushes[FirstPush(Recorded)]).e[i].kind]

C36_LeafFrame ==
    /\ [][(IsLeaf /\ PushStep /\ HoldsResult) => OnlyCounted]_vars
    /\ []FirstFailureReported

\* A lenient u8 leaf given a=x, then a=1, then a data field: the context
\* held the error of a=x through both later pushes, and finalize reports it.
C36_Witness ==
    /\ EndedNormally /\ ty = T_leaf("u8") /\ ~options.strict
    /\ Len(Pushes) = MaxFields
    /\ Pushes[1].op = "push_value" /\ Pushes[1].field.value = <<"x">>
    /\ Pushes[2].op = "push_value" /\ Pushes[2].field.value = <<"1">>
    /\ Pushes[MaxFields].op = "push_data"
    /\ ~result.v.ok /\ result.v.e[1].kind = "Int"
    /\ result.v.e[1].value = Some(<<"x">>)

(***************************************************************************)
(* C37.  The sub-contexts of a sequence: a push whose key continues the    *)
(* key before it goes into the current sub-context, which exists (the      *)
(* expect in VecContext::context finds it) and is not finalized by the     *)
(* push; any other push finalizes the current sub-context, if there is     *)
(* one, exactly once, and goes into a fresh one; and finalize finalizes    *)
(* the last.  So every sub-context opened is finalized once, and none is   *)
(* pushed into after that.                                                 *)
(***************************************************************************)
\* The push made by this step, as the element sees it.
PushedInto(c) ==
    IF LastCall'.op = "push_value"
    THEN FF_push_value(ty.e, c, Field_shift(LastCall'.field))
    ELSE FF_push_data(ty.e, c, Field_shift(LastCall'.field))

\* The sequence's items and errors after its current sub-context, if it
\* has one, was finalized once.
CurrentClosed ==
    IF ~context.v.current.some
    THEN [items |-> context.v.items, errors |-> context.v.errors]
    ELSE LET r == FF_finalize(ty.e, context.v.current.v)
         IN  IF r.ok
             THEN [items |-> Append(context.v.items, r.v), errors |-> context.v.errors]
             ELSE [items |-> context.v.items, errors |-> context.v.errors \o r.e]

SubContextStep ==
    (IsVec /\ PushStep) =>
        IF keys_match(context.v.last_key, PushKey(LastCall'))
        THEN /\ context.v.current.some
             /\ context'.v.items = context.v.items
             /\ context'.v.errors = context.v.errors
             /\ context'.v.current = Some(PushedInto(context.v.current.v))
        ELSE /\ context'.v.items = CurrentClosed.items
             /\ context'.v.errors = CurrentClosed.errors
             /\ context'.v.current = Some(PushedInto(FF_init(ty.e, context.v.opts)))

LastClosedStep ==
    (IsVec /\ FinalizeStep) =>
        /\ context' = None
        /\ result'.v = ResultOf(CurrentClosed)

\* The sub-contexts opened so far: one for each push that does not
\* continue the key before it.
Opened == Cardinality({i \in 1..Len(Pushes) : ~ContinuesRun(i)})

\* While the sequence is pushed to, all its sub-contexts but the current
\* one are finalized: each left one item or, for a leaf, one error.
OpenedAndClosed ==
    (IsVec /\ pc = "loop" /\ Len(Pushes) > 0) =>
        /\ context.v.current.some
        /\ Len(context.v.items) + 1 <= Opened
        /\ ty.e.k = "leaf" =>
             Len(context.v.items) + Len(context.v.errors) + 1 = Opened

C37_SubContextLifecycle ==
    /\ [][SubContextStep /\ LastClosedStep]_vars
    /\ []OpenedAndClosed

\* [0], [0], [1] pushed to a Vec<u8>: the second push found the current
\* sub-context, the third finalized it and opened another.
C37_Witness ==
    /\ IsVec /\ pc = "loop" /\ ty.e = T_leaf("u8") /\ Len(Pushes) = 3
    /\ PushKey(Pushes[1]) = Some(<<"0">>)
    /\ PushKey(Pushes[2]) = Some(<<"0">>)
    /\ PushKey(Pushes[3]) = Some(<<"1">>)
    /\ Pushes[1].op = "push_value" /\ Pushes[1].field.value = <<"1">>
    /\ context.v.items = <<1>> /\ context.v.current.some
    /\ Opened = 2

(***************************************************************************)
(* C38.  Segmentation loses nothing: each shift of a fresh cursor starts   *)
(* the new segment where the segment before it ended, the prefix at a      *)
(* cursor (what prefixes() yields there) is the raw text from offset 0 to  *)
(* the cursor's end, which is also the segments so far put together, and   *)
(* when the cursor is terminal the segments put together are the name.     *)
(***************************************************************************)
\* The cursor on path after NameView::new and n shifts.
RECURSIVE Shifted(_)
Shifted(n) == IF n = 0 THEN NameView_new(path) ELSE NameView_shift(Shifted(n - 1))

\* The shifts that brought the cursor where it is.
ShiftsMade == CHOOSE n \in 0..(Len(path) + 1) :
                  /\ Shifted(n) = cursor.v
                  /\ \A m \in 0..(n - 1) : Shifted(m) # cursor.v

\* The segments of the cursor's first n + 1 positions, put together.
RECURSIVE Concatenated(_)
Concatenated(n) ==
    LET seg == Slice(path, Shifted(n).start, Shifted(n).end)
    IN  IF n = 0 THEN seg ELSE Concatenated(n - 1) \o seg

Contiguous == cursor.some => cursor'.v.start = cursor.v.end

Lossless ==
    cursor.some =>
        /\ NameView_as_name(cursor.v) = SubSeq(path, 1, cursor.v.end)
        /\ Concatenated(ShiftsMade) = NameView_as_name(cursor.v)
        /\ NameView_is_terminal(cursor.v) => Concatenated(ShiftsMade) = path

\* prefixes() yields the prefixes at the cursor's positions, in order.
PrefixesYielded ==
    \A i \in 1..Len(Name_prefixes(path).items) :
        Name_prefixes(path).items[i] = SubSeq(path, 1, Shifted(i - 1).end)

C38_Lossless ==
    /\ [][ViewShift => Contiguous]_vars
    /\ [](Lossless /\ PrefixesYielded)

\* a[a] after new and two shifts: the segments a and [a] make the name.
C38_Witness ==
    /\ path = <<"a", "[", "a", "]">>
    /\ cursor.some /\ NameView_is_terminal(cursor.v)
    /\ ShiftsMade = 2
    /\ Concatenated(1) = path
    /\ Name_prefixes(path).items = << <<"a">>, path >>

(***************************************************************************)
(* C39.  A name that sanitize returns is safe: it is not empty, it has no  *)
(* '.', '/' or '\' in it, and it is the final path component of the name   *)
(* the field was sent with, up to that component's first '.'.              *)
(***************************************************************************)
\* s, from position e + 1 on, is made of separators and of "." components.
OnlyDotsAfter(s, e) ==
    \A k \in (e + 1)..Len(s) :
        \/ s[k] = "/"
        \/ /\ s[k] = "."
           /\ s[k - 1] = "/"
           /\ k = Len(s) \/ s[k + 1] = "/"

\* s[b..e] is the final path component of s: a piece between separators
\* that is not "." or "..", with nothing but separators and "." after it.
FinalComponent(s, b, e) ==
    /\ b <= e
    /\ \A k \in b..e : s[k] # "/"
    /\ b = 1 \/ s[b - 1] = "/"
    /\ e = Len(s) \/ s[e + 1] = "/"
    /\ SubSeq(s, b, e) \notin {<<".">>, <<".", ".">>}
    /\ OnlyDotsAfter(s, e)

\* r is the component s[b..e] up to its first '.'.
StemOf(r, s, b, e) ==
    /\ Len(r) <= e - b + 1
    /\ r = SubSeq(s, b, b + Len(r) - 1)
    /\ \A k \in 1..Len(r) : r[k] # "."
    /\ Len(r) = e - b + 1 \/ s[b + Len(r)] = "."

C39_SanitizedSafe ==
    \A i \in 1..Len(calls) :
        (SentWithFileName(i) /\ calls[i].field.file_name.some) =>
            LET r == calls[i].field.file_name.v
                s == FileNameSent(i)
            IN  /\ r # <<>>
                /\ \A k \in 1..Len(r) : r[k] \notin {".", "/", "\\"}
                /\ \E b, e \in 1..Len(s) :
                     FinalComponent(s, b, e) /\ StemOf(r, s, b, e)

\* A field sent as b.a/ is pushed with the file name b.
C39_Witness ==
    \E i \in 1..Len(calls) :
        /\ SentWithFileName(i)
        /\ FileNameSent(i) = <<"b", ".", "a", "/">>
        /\ calls[i].field.file_name = Some(<<"b">>)

(***************************************************************************)
(* C40.  A map entry made by a push with an implicit key, [key], is given  *)
(* its key once, by the push that makes it: however many pushes address    *)
(* the entry afterwards, its key context has counted one push for the key  *)
(* text and one for every [k:key] field, so that [a], [a] alone never      *)
(* make the key a Duplicate, in strict mode either; and the map has as     *)
(* many key contexts and value contexts as entries, after every push.      *)
(***************************************************************************)
\* The push is to the key side or to the value side of an entry.
IsSideUncased(c, side) ==
    Len(PushIndices(c)) >= 2 /\ uncased_starts_with(PushIndices(c)[1], side)

\* The push addresses the entry of key.
Addresses(c, key) ==
    \/ IsImplicit(c) /\ PushIndices(c)[1] = key
    \/ /\ IsSideUncased(c, "k") \/ IsSideUncased(c, "v")
       /\ PushIndices(c)[2] = key

\* The pushes that address the entry of key, in order of arrival.
Addressing(key) == {i \in 1..Len(Pushes) : Addresses(Pushes[i], key)}

\* The push that made the entry of key.
Creator(key) == CHOOSE i \in Addressing(key) : \A j \in Addressing(key) : i <= j

\* The pushes to the key side of the entry of key.
KeySidePushes(key) ==
    {i \in Addressing(key) : IsSideUncased(Pushes[i], "k")}

EntriesCounted ==
    /\ Len(context.v.keys) = Len(context.v.key_map)
    /\ Len(context.v.values) = Len(context.v.key_map)
    /\ {context.v.key_map[j].key : j \in 1..Len(context.v.key_map)}
         = {key \in UNION {{PushIndices(Pushes[i])[k] :
                                k \in 1..Len(PushIndices(Pushes[i]))} :
                             i \in 1..Len(Pushes)} :
               Addressing(key) # {}}

KeyGivenOnce ==
    \A j \in 1..Len(context.v.key_map) :
        LET key == context.v.key_map[j].key
            kc == context.v.keys[context.v.key_map[j].index + 1]
        IN  IsImplicit(Pushes[Creator(key)]) =>
              /\ kc.pushes = 1 + Cardinality(KeySidePushes(key))
              /\ kc.field_value = Some(key)
              /\ KeySidePushes(key) = {} => FF_finalize(ty.key, kc) = Ok(key)

C40_ImplicitKeyOnce ==
    (IsMap /\ pc = "loop" /\ context.some) => EntriesCounted /\ KeyGivenOnce

\* A strict map given [a] three times: one entry, whose key context has
\* counted one push and whose value context has counted three.
C40_Witness ==
    /\ IsMap /\ pc = "loop" /\ context.some /\ context.v.opts.strict
    /\ Len(Pushes) = 3
    /\ \A i \in 1..3 : PushIndices(Pushes[i]) = <<<<"a">>>>
    /\ Len(context.v.key_map) = 1
    /\ context.v.keys[1].pushes = 1
    /\ context.v.values[1].pushes = 3
    /\ FF_finalize(ty.key, context.v.keys[1]) = Ok(<<"a">>)

====
